---- MODULE Spec2Model ----
(***************************************************************************)
(* vscode-remote-sync: the sync orchestration of ConnectionManager         *)
(* (src/core/ConnectionManager.ts) together with the configuration-change  *)
(* handler of extension.ts that drives it, and the save gate and debounce  *)
(* of FileSyncManager (src/core/FileSyncManager.ts) with the ignore rules  *)
(* of GitignoreParser (src/utils/gitignore.ts).                            *)
(*                                                                         *)
(* JavaScript runs one handler at a time: the code between two awaits is   *)
(* one atomic step.  Each sync() invocation is a call c with a position    *)
(* pc: "idle" (not yet invoked), "executing" (awaiting executor.execute,   *)
(* line 83), "backoff" (awaiting delay, line 92), "returning"             *)
(* (executeWithRetry has returned and the await of line 54 has not yet     *)
(* resumed), "done" (returned or thrown).                                  *)
(***************************************************************************)
EXTENDS Integers, Sequences, FiniteSets, TLC

\* ---------------------------------------------------------------- bounds
MaxCalls == 3        \* sync() invocations in the interleaving specification
MaxSyncRetry == 1    \* largest retryCount in the interleaving specification
MaxRetry == 4        \* largest retryCount in the retry-loop specification
MaxRetryCalls == 2   \* sync() invocations in the retry-loop specification
MaxDryCalls == 2     \* performSync invocations in the dry-run specification
MaxDryRetry == 2     \* largest retryCount in the dry-run specification
MaxStatusCalls == 2  \* performSync invocations in the status-bar specification
MaxSyncSaves == 2    \* handleSave invocations in the save-to-sync specification
MaxFaultyCalls == 2  \* sync() invocations in the specification with a throwing executor
MaxSaves == 3        \* handleSave invocations in the debounce specification
MaxGateSaves == 2    \* handleSave invocations in the save-gate specification
MaxRegistrations == 2  \* registerWorkspace invocations
MaxTeardowns == 1    \* unregisterWorkspace / dispose invocations
DebounceTicks == 2   \* debounceMs, in clock ticks
MaxChunks == 2       \* data events of one rsync process
MaxTwoCalls == 2     \* sync() invocations over two workspaces
MaxUpdates == 2      \* persistWorkspaceSettings invocations
MaxSections == 2     \* Host sections of one ssh config file

Calls == 1..MaxCalls

\* ------------------------------------------------------------ input sets
Keys == {"/workspace/path"}
Hosts == {"srv"}
SettingsHosts == {"", "srv"}   \* connection.host as read from the settings
RemotePaths == {"/remote/path"}

\* ConnectionConfig (types/index.ts)
ConnectionConfig == [host : Hosts, remotePath : RemotePaths, enabled : BOOLEAN]
SettingsConnection == [host : SettingsHosts, remotePath : RemotePaths, enabled : BOOLEAN]

\* lastSyncTime?: Date -- the absent value
NoTime == 0

NO_CONNECTION == "NO_CONNECTION"
SYNC_IN_PROGRESS == "SYNC_IN_PROGRESS"

\* SYNC_CONSTANTS.RETRY_DELAYS_MS (delays = [1000, 2000, 4000])
RETRY_DELAYS_MS == <<1000, 2000, 4000>>

VARIABLES
  connections,       \* Map<string, ConnectionState>
  activeOperations,  \* Set<string>
  calls,             \* one record per sync() invocation
  clock,             \* value the next new Date() yields
  failRun,           \* history: failed sync completions since the last successful one / setConnection
  onlySyncs          \* history: since its last setConnection the key saw nothing but sync calls

\* FileSyncManager
VARIABLES
  syncCallbacks,     \* Map<string, () => void>: key -> the registration that stored the callback
  gitignoreParsers,  \* Map<string, GitignoreParser | null>
  pendingSyncs,      \* Map<string, NodeJS.Timeout>: key -> timer id
  timers,            \* the timers the runtime holds: id -> [key, remaining, epoch]
  loads,             \* GitignoreParser.load promises that have not settled
  handled,           \* handleSave invocations so far
  registrations,     \* registerWorkspace invocations so far
  epoch,             \* teardowns (unregisterWorkspace, dispose) so far
  sinceLast,         \* history: ticks since the last scheduleSync, NoSave before the first
  saves,             \* history: scheduleSync calls (eligible saves)
  allWithin,         \* history: each came less than the debounce delay after the one before
  allBeyond,         \* history: each came more than the debounce delay after the one before
  fired,             \* history: callback invocations
  silent,            \* history: timers that expired and found no callback
  lastGate           \* history: the last gate evaluation and whether scheduleSync followed

\* the ignore file of the workspace
VARIABLES
  disk,              \* <workspace>/.gitignore as it is on disk
  reads              \* what the readFile of a pending load has read: load id -> file

\* RsyncExecutor: one execute() call
VARIABLES
  rsync,             \* the call and the child process it spawns
  promise,           \* the promise execute() returns
  emitted            \* history: the close / error events of the process, in order

\* performSync of extension.ts and of CommandRegistry
VARIABLES
  ui                 \* per sync call: the performSync that makes it, and what it shows

\* ConfigurationProvider.persistWorkspaceSettings
VARIABLES
  settings,          \* .vscode/settings.json
  updates            \* one record per persistWorkspaceSettings invocation

\* SshConfigParser
VARIABLES
  sshConfig,
  hosts

\* StatusBarManager
VARIABLES
  workspaceStates    \* Map<string, StatusBarState>

cmVars == <<connections, activeOperations, calls, clock, failRun, onlySyncs>>
fsVars == <<syncCallbacks, gitignoreParsers, pendingSyncs, timers, loads, handled, registrations,
            epoch, sinceLast, saves, allWithin, allBeyond,
            fired, silent, lastGate>>
vars == <<connections, activeOperations, calls, clock, failRun, onlySyncs,
          syncCallbacks, gitignoreParsers, pendingSyncs, timers, loads, handled, registrations,
          epoch, sinceLast, saves, allWithin, allBeyond,
          fired, silent, lastGate,
          disk, reads,
          rsync, promise, emitted,
          ui,
          settings, updates,
          sshConfig, hosts,
          workspaceStates>>
ioVars == <<disk, reads>>
rxVars == <<rsync, promise, emitted>>
uiVars == <<ui>>
psVars == <<settings, updates>>
sbVars == <<workspaceStates>>
sshVars == <<sshConfig, hosts>>

\* what the actions of one component leave alone
otherThanCm == <<fsVars, ioVars, rxVars, uiVars, psVars, sshVars, sbVars>>
otherThanFs == <<cmVars, rxVars, uiVars, psVars, sshVars, sbVars>>
otherThanRx == <<cmVars, fsVars, ioVars, uiVars, psVars, sshVars, sbVars>>
notCmNorUi == <<fsVars, ioVars, rxVars, psVars, sshVars>>
otherThanPs == <<cmVars, fsVars, ioVars, rxVars, uiVars, sshVars, sbVars>>
otherThanSsh == <<cmVars, fsVars, ioVars, rxVars, uiVars, psVars, sbVars>>

\* ----------------------------------------------------------- data model
\* The SyncResult of one executor attempt; attempt says which execute() call made it.
SyncResult(ok, n) == [success |-> ok, attempt |-> n]
NoResult == [success |-> FALSE, attempt |-> 0]

\* setConnection's fresh ConnectionState
NewState(config) == [config |-> config, lastSyncTime |-> NoTime, failureCount |-> 0]

NoSnapshot == NewState([host |-> "", remotePath |-> "/remote/path", enabled |-> FALSE])

IdleCall ==
  [pc |-> "idle", workspaceFolder |-> "/workspace/path", maxRetries |-> 0,
   attempt |-> 0, state |-> NoSnapshot, lastResult |-> NoResult,
   executed |-> 0, results |-> <<>>, delays |-> <<>>, outcome |-> "none",
   returned |-> NoResult, thrown |-> "none"]

InFlightPcs == {"executing", "backoff", "returning"}
InFlight(c) == calls[c].pc \in InFlightPcs
InFlightOn(k) == {c \in Calls : InFlight(c) /\ calls[c].workspaceFolder = k}

\* Map operations
MapSet(m, k, v) == [x \in (DOMAIN m) \cup {k} |-> IF x = k THEN v ELSE m[x]]
MapDelete(m, k) == [x \in (DOMAIN m) \ {k} |-> m[x]]

getConnection(k) == IF k \in DOMAIN connections THEN connections[k] ELSE NoSnapshot
hasConnection(k) == k \in DOMAIN connections
isActive(k) == k \in activeOperations
getFailureCount(k) == IF k \in DOMAIN connections THEN connections[k].failureCount ELSE 0
getLastSyncTime(k) == IF k \in DOMAIN connections THEN connections[k].lastSyncTime ELSE NoTime

\* ------------------------------------------------ FileSyncManager inputs
\* document.fileName / document.uri.fsPath of the saved documents
Documents ==
  { "/workspace/path/main.py", "/workspace/path/debug.log", "/workspace/path/important.log",
    "/workspace/path/src/main.py", "/workspace/path/.gitignore", "/elsewhere/main.py" }

\* TriggerConfig (types/index.ts)
TriggerConfigs ==
  { [patterns |-> <<"*.py", "*.log">>, excludePatterns |-> <<"debug.*">>],
    [patterns |-> <<"*">>, excludePatterns |-> <<"*.log">>],
    [patterns |-> <<"src/**/*.py">>, excludePatterns |-> <<>>] }
NoTrigger == [patterns |-> <<>>, excludePatterns |-> <<>>]

\* no readable .gitignore
NoFile == [readable |-> FALSE, content |-> ""]

\* what fs.readFile of <workspace>/.gitignore can yield
GitignoreFiles ==
  { NoFile,
    [readable |-> TRUE, content |-> "*.log\n!important.log"],
    [readable |-> TRUE, content |-> "!important.log\n*.log"],
    [readable |-> TRUE, content |-> "# build\n\n/main.py\n src/ "] }

\* sinceLast before the first scheduleSync
NoSave == -1
\* ticks are counted up to one beyond the debounce delay
TickCap == DebounceTicks + 1

NoTimer == [key |-> "", remaining |-> 0, epoch |-> 0]

\* ------------------------------------------------------------ text
\* JavaScript strings: Len, \o and SubSeq work on them character by character.
CharAt(s, i) == SubSeq(s, i, i)
startsWith(s, prefix) == Len(prefix) <= Len(s) /\ SubSeq(s, 1, Len(prefix)) = prefix
endsWith(s, suffix) == Len(suffix) <= Len(s) /\ SubSeq(s, Len(s) - Len(suffix) + 1, Len(s)) = suffix
slice(s, from) == SubSeq(s, from + 1, Len(s))
includes(s, ch) == \E i \in 1..Len(s) : CharAt(s, i) = ch

WhiteSpace == {" ", "\t", "\r"}

RECURSIVE trimStart(_)
trimStart(s) == IF Len(s) > 0 /\ CharAt(s, 1) \in WhiteSpace THEN trimStart(slice(s, 1)) ELSE s

RECURSIVE trimEnd(_)
trimEnd(s) ==
  IF Len(s) > 0 /\ CharAt(s, Len(s)) \in WhiteSpace THEN trimEnd(SubSeq(s, 1, Len(s) - 1)) ELSE s

trim(s) == trimEnd(trimStart(s))

\* position of the first sep in s, 0 if there is none
RECURSIVE IndexFrom(_, _, _)
IndexFrom(s, sep, i) ==
  IF i > Len(s) THEN 0 ELSE IF CharAt(s, i) = sep THEN i ELSE IndexFrom(s, sep, i + 1)

\* s.split(sep) for a one-character separator
RECURSIVE split(_, _)
split(s, sep) ==
  LET i == IndexFrom(s, sep, 1)
  IN  IF i = 0 THEN <<s>> ELSE <<SubSeq(s, 1, i - 1)>> \o split(slice(s, i), sep)

Range(seq) == {seq[i] : i \in DOMAIN seq}

\* ------------------------------------------------------- minimatch
\* minimatch(path, pattern) with default options, for patterns made of
\* literals, `*`, `?` and `**` (no braces, classes or extglobs).
IsMagic(part) == includes(part, "*") \/ includes(part, "?")

\* one path segment against one pattern segment, from positions i and j
RECURSIVE WildMatch(_, _, _, _)
WildMatch(f, i, p, j) ==
  IF j > Len(p) THEN i > Len(f)
  ELSE IF CharAt(p, j) = "*"
    THEN \E n \in i..(Len(f) + 1) : WildMatch(f, n, p, j + 1)
  ELSE IF CharAt(p, j) = "?"
    THEN i <= Len(f) /\ WildMatch(f, i + 1, p, j + 1)
  ELSE i <= Len(f) /\ CharAt(f, i) = CharAt(p, j) /\ WildMatch(f, i + 1, p, j + 1)

\* a magic segment matches no empty name, and a leading wildcard no dot file
PartMatch(f, p) ==
  IF IsMagic(p)
    THEN /\ Len(f) > 0
         /\ (CharAt(p, 1) \in {"*", "?"} => CharAt(f, 1) # ".")
         /\ WildMatch(f, 1, p, 1)
    ELSE f = p

\* names a `**` never swallows
Hidden(f) == f = "." \/ f = ".." \/ startsWith(f, ".")

\* Minimatch.matchOne on the segment lists, from positions fi and pi
RECURSIVE matchOne(_, _, _, _)
matchOne(file, fi, pattern, pi) ==
  IF pi > Len(pattern)
    THEN fi > Len(file) \/ (fi = Len(file) /\ file[fi] = "")
  ELSE IF fi > Len(file)
    THEN FALSE
  ELSE IF pattern[pi] = "**"
    THEN IF pi = Len(pattern)
           THEN \A n \in fi..Len(file) : ~Hidden(file[n])
           ELSE \E fr \in fi..Len(file) :
                  /\ matchOne(file, fr, pattern, pi + 1)
                  /\ \A n \in fi..(fr - 1) : ~Hidden(file[n])
  ELSE PartMatch(file[fi], pattern[pi]) /\ matchOne(file, fi + 1, pattern, pi + 1)

RECURSIVE minimatch(_, _)
minimatch(path, pattern) ==
  IF startsWith(pattern, "#") THEN FALSE
  ELSE IF trim(pattern) = "" THEN path = ""
  ELSE IF startsWith(pattern, "!") THEN ~minimatch(path, slice(pattern, 1))
  ELSE matchOne(split(path, "/"), 1, split(pattern, "/"), 1)

\* ------------------------------------------------- GitignoreParser
\* gitignore.ts constructor: the patterns and the negated patterns of a content
RECURSIVE ParseLines(_, _)
ParseLines(lines, parser) ==
  IF lines = <<>> THEN parser
  ELSE LET trimmed == trim(Head(lines))
       IN  IF trimmed = "" \/ startsWith(trimmed, "#")
             THEN ParseLines(Tail(lines), parser)
           ELSE IF startsWith(trimmed, "!")
             THEN ParseLines(Tail(lines),
                    [parser EXCEPT !.negativePatterns = Append(@, slice(trimmed, 1))])
           ELSE ParseLines(Tail(lines), [parser EXCEPT !.patterns = Append(@, trimmed)])

GitignoreParser(content) ==
  ParseLines(split(content, "\n"),
             [isNull |-> FALSE, patterns |-> <<>>, negativePatterns |-> <<>>, content |-> content])

\* GitignoreParser.load resolving to null (no readable .gitignore)
NullParser == [isNull |-> TRUE, patterns |-> <<>>, negativePatterns |-> <<>>, content |-> ""]

\* lastGate before the first shouldTriggerSync evaluation
NoGate == [relativePath |-> "", triggerConfig |-> NoTrigger, ignored |-> FALSE,
           scheduled |-> FALSE, evaluated |-> FALSE]

\* gitignore.ts matchesPattern
matchesPattern(relativePath, pattern) ==
  IF endsWith(pattern, "/")
    THEN startsWith(relativePath, pattern) \/ minimatch(relativePath \o "/", pattern)
  ELSE IF startsWith(pattern, "/")
    THEN minimatch(relativePath, slice(pattern, 1))
  ELSE minimatch(relativePath, pattern) \/ minimatch(relativePath, "**/" \o pattern)

\* first index of seq whose pattern matches, 0 if none (the for loops of isIgnored)
RECURSIVE FirstMatch(_, _, _)
FirstMatch(relativePath, seq, i) ==
  IF i > Len(seq) THEN 0
  ELSE IF matchesPattern(relativePath, seq[i]) THEN i
  ELSE FirstMatch(relativePath, seq, i + 1)

\* variant: the positive patterns are consulted first
isIgnored_positiveFirst(parser, relativePath) ==
  IF FirstMatch(relativePath, parser.patterns, 1) # 0 THEN TRUE
  ELSE FALSE

\* gitignore.ts isIgnored
isIgnored(parser, relativePath) ==
  IF FirstMatch(relativePath, parser.negativePatterns, 1) # 0 THEN FALSE
  ELSE IF FirstMatch(relativePath, parser.patterns, 1) # 0 THEN TRUE
  ELSE FALSE

\* ----------------------------------------------------- RsyncExecutor text
Digits == "0123456789"
IsDigit(ch) == ch # "" /\ includes(Digits, ch)
DigitValue(ch) == CHOOSE d \in 0..9 : CharAt(Digits, d + 1) = ch

\* String(n) for a number n >= 0
RECURSIVE NumberToString(_)
NumberToString(n) ==
  IF n < 10 THEN CharAt(Digits, n + 1)
  ELSE NumberToString(n \div 10) \o CharAt(Digits, (n % 10) + 1)

\* parseInt(s, 10) yields NaN when s does not start with a digit
NaN == -1

RECURSIVE ParseDigits(_, _, _)
ParseDigits(s, i, acc) ==
  IF i <= Len(s) /\ IsDigit(CharAt(s, i))
    THEN ParseDigits(s, i + 1, 10 * acc + DigitValue(CharAt(s, i)))
    ELSE acc

parseInt(s) == IF Len(s) > 0 /\ IsDigit(CharAt(s, 1)) THEN ParseDigits(s, 1, 0) ELSE NaN

\* s.replace(/,/g, '')
RECURSIVE removeCommas(_)
removeCommas(s) ==
  IF s = "" THEN ""
  ELSE IF CharAt(s, 1) = "," THEN removeCommas(slice(s, 1))
  ELSE CharAt(s, 1) \o removeCommas(slice(s, 1))

\* \s of a regular expression
RegexSpace == {" ", "\t", "\n", "\r"}

\* the first position from i on whose character is not in chars
RECURSIVE SkipWhile(_, _, _)
SkipWhile(s, i, chars) ==
  IF i <= Len(s) /\ CharAt(s, i) \in chars THEN SkipWhile(s, i + 1, chars) ELSE i

HasAt(s, i, sub) == i + Len(sub) - 1 <= Len(s) /\ SubSeq(s, i, i + Len(sub) - 1) = sub

DigitChars == {CharAt(Digits, d) : d \in 1..10}

NoMatch == [matched |-> FALSE, group |-> ""]

\* output.match(/<label>\s*(<chars>+)<\s*tail>/) tried at position i and
\* then at the later ones: the first match and its capture group
RECURSIVE MatchFrom(_, _, _, _, _)
MatchFrom(s, i, label, chars, tail) ==
  IF i > Len(s) THEN NoMatch
  ELSE LET from == SkipWhile(s, i + Len(label), RegexSpace)
           to == SkipWhile(s, from, chars)
       IN  IF /\ HasAt(s, i, label)
              /\ to > from
              /\ (tail = "" \/ HasAt(s, SkipWhile(s, to, RegexSpace), tail))
             THEN [matched |-> TRUE, group |-> SubSeq(s, from, to - 1)]
             ELSE MatchFrom(s, i + 1, label, chars, tail)

\* parseStats, lines 119-127
parseStats(output) ==
  LET filesMatch == MatchFrom(output, 1, "Number of files transferred:", DigitChars, "")
      bytesMatch == MatchFrom(output, 1, "Total transferred file size:", DigitChars \cup {","}, "bytes")
  IN  [filesTransferred |-> IF filesMatch.matched THEN parseInt(filesMatch.group) ELSE 0,
       bytesTransferred |-> IF bytesMatch.matched THEN parseInt(removeCommas(bytesMatch.group)) ELSE 0]

\* path.join(localPath, name) for an absolute localPath with or without a final slash
join(localPath, name) ==
  IF endsWith(localPath, "/") THEN localPath \o name ELSE localPath \o "/" \o name

BASE_FLAGS == <<"-avz", "--stats">>

\* args.push(value) when the condition holds
PushIf(args, condition, value) == IF condition THEN Append(args, value) ELSE args

\* the loop of lines 102-104
RECURSIVE PushExcludes(_, _)
PushExcludes(args, patterns) ==
  IF patterns = <<>> THEN args
  ELSE PushExcludes(Append(args, "--exclude=" \o Head(patterns)), Tail(patterns))

\* buildDestination, lines 114-117
buildDestination(connection) == connection.host \o ":" \o connection.remotePath

\* variant: the additional excludes come before the fixed ones
buildArguments_excludesFirst(localPath, connection, syncConfig, dryRun, exists) ==
  LET a1 == PushExcludes(BASE_FLAGS, syncConfig.additionalExcludes)
      a2 == PushIf(a1, dryRun, "--dry-run")
      a3 == PushIf(a2, syncConfig.deleteExtraneous, "--delete")
      a4 == Append(a3, "--exclude=.git")
      a5 == PushIf(a4, syncConfig.useGitignore /\ exists,
                   "--exclude-from=" \o join(localPath, ".gitignore"))
      source == IF endsWith(localPath, "/") THEN localPath ELSE localPath \o "/"
  IN  a5 \o <<source, buildDestination(connection)>>

\* buildArguments, lines 82-112; exists is what fileExists resolves to
buildArguments(localPath, connection, syncConfig, dryRun, exists) ==
  LET a1 == PushIf(BASE_FLAGS, dryRun, "--dry-run")
      a2 == PushIf(a1, syncConfig.deleteExtraneous, "--delete")
      a3 == Append(a2, "--exclude=.git")
      a4 == PushIf(a3, syncConfig.useGitignore /\ exists,
                   "--exclude-from=" \o join(localPath, ".gitignore"))
      a5 == PushExcludes(a4, syncConfig.additionalExcludes)
      source == IF endsWith(localPath, "/") THEN localPath ELSE localPath \o "/"
  IN  a5 \o <<source, buildDestination(connection)>>

\* ----------------------------------------------- RsyncExecutor data model
LocalPaths == {"/local/path", "/local/path/"}
ExcludeLists == {<<>>, <<"node_modules", "__pycache__">>, <<"__pycache__", "node_modules">>}
SyncConfigs ==
  [deleteExtraneous : BOOLEAN, useGitignore : BOOLEAN, additionalExcludes : ExcludeLists]
ExecutorConnection == [host |-> "test-server", remotePath |-> "/remote/path", enabled |-> TRUE]

\* the exit code of a process ended by a signal is null
Signalled == -1
ExitCodes == {0, 1, 23, Signalled}

\* `${code}`
CodeText(code) == IF code = Signalled THEN "null" ELSE NumberToString(code)

StdoutChunks ==
  { "sending incremental file list\n",
    "Number of files transferred: 25\n",
    "Number of files transferred: 1,234\n",
    "Total transferred file size: 100,500 bytes\n" }
StderrChunks == { "rsync error: connection refused\n" }

NoError == [present |-> FALSE, message |-> ""]
Error(message) == [present |-> TRUE, message |-> message]
SpawnErrors == {Error("Command not found"), Error("spawn rsync ENOENT")}

Unsettled ==
  [success |-> FALSE, filesTransferred |-> 0, bytesTransferred |-> 0, error |-> NoError]
NoPromise == [state |-> "none", value |-> Unsettled]
NotCalled ==
  [pc |-> "idle", localPath |-> "", syncConfig |-> CHOOSE c \in SyncConfigs : TRUE,
   dryRun |-> FALSE, args |-> <<>>, stdout |-> "", stderr |-> "",
   chunks |-> 0, closed |-> FALSE, errored |-> FALSE]

\* ------------------------------------------------- performSync data model
\* SYNC_CONSTANTS.MAX_FAILURE_COUNT
MAX_FAILURE_COUNT == 3

\* who calls connectionManager.sync: performSync of extension.ts (the save
\* callback) or CommandRegistry.performSync (initial sync, sync now, dry run)
SyncRequests ==
  {r \in [origin : {"extension", "command"}, trigger : {"save", "manual", "initial"},
          dryRun : BOOLEAN, showNotifications : BOOLEAN] :
     \/ r.origin = "extension" /\ r.trigger = "save" /\ ~r.dryRun
     \/ r.origin = "command" /\ r.trigger = "initial" /\ ~r.dryRun
     \/ r.origin = "command" /\ r.trigger = "manual"}

NotStarted ==
  [pc |-> "idle", notice |-> "none",
   request |-> [origin |-> "extension", trigger |-> "save", dryRun |-> FALSE,
                showNotifications |-> FALSE]]

\* ------------------------------------- persistWorkspaceSettings data model
Updates == 1..MaxUpdates

ConnectionKeys ==
  {"remote-sync.connection.host", "remote-sync.connection.remotePath",
   "remote-sync.connection.enabled"}

\* the Record<string, unknown> {}
EmptyObject == [x \in {} |-> "old"]

\* Partial<ConnectionConfig>: the new values of the fields that are not undefined
ConnectionUpdates == UNION {[keys -> {"new"}] : keys \in (SUBSET ConnectionKeys) \ {{}}}

\* The settings file: absent, or text that is a JSON object, a JSON object
\* with comments or trailing commas (which the editor accepts and JSON.parse
\* does not), or JSON that is not an object; entries are the keys it holds.
NoSettings == [exists |-> FALSE, syntax |-> "none", entries |-> EmptyObject]
JsonObject(entries) == [exists |-> TRUE, syntax |-> "json", entries |-> entries]
SettingsFiles ==
  { NoSettings,
    JsonObject(EmptyObject),
    JsonObject([x \in {"editor.tabSize"} |-> "old"]),
    JsonObject([x \in {"editor.tabSize", "remote-sync.connection.host"} |-> "old"]),
    [exists |-> TRUE, syntax |-> "jsonc", entries |-> [x \in {"editor.tabSize"} |-> "old"]],
    [exists |-> TRUE, syntax |-> "array", entries |-> EmptyObject] }

NoUpdate == [pc |-> "idle", connection |-> EmptyObject, current |-> EmptyObject]

\* ------------------------------------------------------------------ Init
Init ==
  /\ connections = [x \in {} |-> NoSnapshot]
  /\ activeOperations = {}
  /\ calls = [c \in Calls |-> IdleCall]
  /\ clock = 1
  /\ failRun = [k \in Keys |-> 0]
  /\ onlySyncs = [k \in Keys |-> FALSE]
  /\ syncCallbacks = [x \in {} |-> 0]
  /\ gitignoreParsers = [x \in {} |-> NullParser]
  /\ pendingSyncs = [x \in {} |-> 0]
  /\ timers = [x \in {} |-> NoTimer]
  /\ loads = {}
  /\ handled = 0
  /\ registrations = 0
  /\ epoch = 0
  /\ sinceLast = NoSave
  /\ saves = 0
  /\ allWithin = TRUE
  /\ allBeyond = TRUE
  /\ fired = 0
  /\ silent = 0
  /\ lastGate = NoGate
  /\ disk = NoFile
  /\ reads = [x \in {} |-> NoFile]
  /\ rsync = NotCalled
  /\ promise = NoPromise
  /\ emitted = <<>>
  /\ ui = [c \in Calls |-> NotStarted]
  /\ settings = NoSettings
  /\ updates = [u \in Updates |-> NoUpdate]
  /\ sshConfig = <<>>
  /\ hosts = <<>>
  /\ workspaceStates = [x \in {} |-> "disabled"]

\* ------------------------------------------------- ConnectionManager API
\* setConnection(workspaceFolder, config)
SetConnection(k, config) ==
  /\ connections' = MapSet(connections, k, NewState(config))
  /\ failRun' = [failRun EXCEPT ![k] = 0]
  /\ onlySyncs' = [onlySyncs EXCEPT ![k] = (InFlightOn(k) = {})]
  /\ UNCHANGED <<activeOperations, calls, clock>>
  /\ UNCHANGED otherThanCm

\* StatusBarManager.setWorkspaceState: workspaceStates.set(fsPath, state)
setWorkspaceState(states, k, state) == MapSet(states, k, state)

\* removeConnection(workspaceFolder)
RemoveConnection(k) ==
  /\ connections' = MapDelete(connections, k)
  /\ activeOperations' = activeOperations \ {k}
  /\ onlySyncs' = [onlySyncs EXCEPT ![k] = FALSE]
  /\ UNCHANGED <<calls, clock, failRun>>
  /\ UNCHANGED otherThanCm

\* extension.ts onConfigurationChanged: removeConnection, then
\* initializeWorkspace, which calls setConnection and shows Idle iff
\* enabled && host, and shows Disabled otherwise.
InitializesConnection(config) == config.enabled /\ config.host # ""

ConfigurationChanged(k, config) ==
  /\ activeOperations' = activeOperations \ {k}
  /\ IF InitializesConnection(config)
       THEN /\ connections' = MapSet(MapDelete(connections, k), k, NewState(config))
            /\ failRun' = [failRun EXCEPT ![k] = 0]
            /\ onlySyncs' = [onlySyncs EXCEPT ![k] = (InFlightOn(k) = {})]
       ELSE /\ connections' = MapDelete(connections, k)
            /\ onlySyncs' = [onlySyncs EXCEPT ![k] = FALSE]
            /\ UNCHANGED failRun
  /\ workspaceStates' = setWorkspaceState(workspaceStates, k,
                            IF InitializesConnection(config) THEN "idle" ELSE "disabled")
  /\ UNCHANGED <<calls, clock>>
  /\ UNCHANGED <<notCmNorUi, uiVars>>

\* ----------------------------------------------------------------- sync
\* variant: only a missing state is refused, a disabled one is synced
NoEnabledConnection_ignoresEnabled(k) == ~hasConnection(k)

\* line 42: !state || !state.config.enabled
NoEnabledConnection(k) == ~hasConnection(k) \/ ~connections[k].config.enabled

\* line 46
AlreadyActive(k) == k \in activeOperations

\* variant: the in-progress test sits inside the try block, so its throw runs the finally
SyncCall_clearsOnReject(c, k, retryCount) ==
  /\ calls[c].pc = "idle"
  /\ \A d \in Calls : d < c => calls[d].pc # "idle"
  /\ IF NoEnabledConnection(k)
       THEN /\ calls' = [calls EXCEPT ![c] = [@ EXCEPT !.pc = "done", !.workspaceFolder = k,
                                                 !.maxRetries = retryCount, !.outcome = NO_CONNECTION]]
            /\ UNCHANGED activeOperations
       ELSE IF AlreadyActive(k)
       THEN /\ calls' = [calls EXCEPT ![c] = [@ EXCEPT !.pc = "done", !.workspaceFolder = k,
                                                 !.maxRetries = retryCount, !.outcome = SYNC_IN_PROGRESS]]
            /\ activeOperations' = activeOperations \ {k}
       ELSE /\ activeOperations' = activeOperations \cup {k}
            /\ calls' = [calls EXCEPT ![c] = [@ EXCEPT !.pc = "executing", !.workspaceFolder = k,
                                                 !.maxRetries = retryCount, !.state = connections[k],
                                                 !.attempt = 0, !.executed = 1]]
  /\ UNCHANGED <<connections, clock, failRun, onlySyncs>>
  /\ UNCHANGED otherThanCm

\* sync(), lines 41-54 and the first loop entry of executeWithRetry up to
\* its await of executor.execute (line 83).
SyncCall(c, k, retryCount) ==
  /\ calls[c].pc = "idle"
  /\ \A d \in Calls : d < c => calls[d].pc # "idle"
  /\ IF NoEnabledConnection(k)
       THEN /\ calls' = [calls EXCEPT ![c] = [@ EXCEPT !.pc = "done", !.workspaceFolder = k,
                                                 !.maxRetries = retryCount, !.outcome = NO_CONNECTION]]
            /\ UNCHANGED activeOperations
       ELSE IF AlreadyActive(k)
       THEN /\ calls' = [calls EXCEPT ![c] = [@ EXCEPT !.pc = "done", !.workspaceFolder = k,
                                                 !.maxRetries = retryCount, !.outcome = SYNC_IN_PROGRESS]]
            /\ UNCHANGED activeOperations
       ELSE /\ activeOperations' = activeOperations \cup {k}
            /\ calls' = [calls EXCEPT ![c] = [@ EXCEPT !.pc = "executing", !.workspaceFolder = k,
                                                 !.maxRetries = retryCount, !.state = connections[k],
                                                 !.attempt = 0, !.executed = 1]]
  /\ UNCHANGED <<connections, clock, failRun, onlySyncs>>
  /\ UNCHANGED otherThanCm

\* variant: one retry too many
RetriesLeft_offByOne(attempt, maxRetries) == attempt <= maxRetries

\* line 89: attempt < maxRetries
RetriesLeft(attempt, maxRetries) == attempt < maxRetries

\* variant: the delay keeps doubling beyond the schedule
RetryDelay_unbounded(attempt) == 1000 * (2 ^ attempt)

\* lines 90-91: RETRY_DELAYS_MS[attempt] || RETRY_DELAYS_MS[2]  (0-based index)
RetryDelay(attempt) ==
  IF attempt + 1 \in DOMAIN RETRY_DELAYS_MS /\ RETRY_DELAYS_MS[attempt + 1] # 0
    THEN RETRY_DELAYS_MS[attempt + 1]
    ELSE RETRY_DELAYS_MS[3]

\* variant: the loop does not stop at a success
EndsLoop_never(result) == FALSE

\* line 85: a successful attempt ends the loop
EndsLoop(result) == result.success

\* executor.execute resolves with a SyncResult (lines 83-94, 99)
ExecuteResolves(c, ok) ==
  /\ calls[c].pc = "executing"
  /\ LET me == calls[c]
         result == SyncResult(ok, me.executed)
         recorded == [me EXCEPT !.lastResult = result, !.results = Append(@, result)]
     IN  calls' = [calls EXCEPT ![c] =
           IF EndsLoop(result)
             THEN [recorded EXCEPT !.pc = "returning"]
             ELSE IF RetriesLeft(me.attempt, me.maxRetries)
               THEN [recorded EXCEPT !.pc = "backoff",
                                     !.delays = Append(@, RetryDelay(me.attempt))]
               ELSE [recorded EXCEPT !.pc = "returning"]]
  /\ UNCHANGED <<connections, activeOperations, clock, failRun, onlySyncs>>
  /\ UNCHANGED otherThanCm

\* the backoff delay elapses: attempt++ and the next executor.execute (lines 82-83)
DelayElapses(c) ==
  /\ calls[c].pc = "backoff"
  /\ calls' = [calls EXCEPT ![c] = [@ EXCEPT !.pc = "executing", !.attempt = @ + 1,
                                            !.executed = @ + 1]]
  /\ UNCHANGED <<connections, activeOperations, clock, failRun, onlySyncs>>
  /\ UNCHANGED otherThanCm

\* variant: a success leaves lastSyncTime as it was
SuccessState_keepsTime(state, now) == [state EXCEPT !.failureCount = 0]

\* lines 57-61: { ...state, lastSyncTime: new Date(), failureCount: 0 }
SuccessState(state, now) == [state EXCEPT !.lastSyncTime = now, !.failureCount = 0]

\* variant: a failure records 1 instead of incrementing
FailureState_setsOne(state) == [state EXCEPT !.failureCount = 1]

\* variant: a failure counts down instead of up
FailureState_decrements(state) == [state EXCEPT !.failureCount = @ - 1]

\* lines 63-66: { ...state, failureCount: state.failureCount + 1 }
FailureState(state) == [state EXCEPT !.failureCount = @ + 1]

\* executor.execute rejects: the await of line 83 throws, executeWithRetry
\* has no handler, and the rejection travels to the await of line 54.
ExecuteRejects(c) ==
  /\ calls[c].pc = "executing"
  /\ calls' = [calls EXCEPT ![c] = [@ EXCEPT !.pc = "returning", !.thrown = "EXECUTOR_ERROR"]]
  /\ UNCHANGED <<connections, activeOperations, clock, failRun, onlySyncs>>
  /\ UNCHANGED otherThanCm

\* variant: a final failed result is thrown instead of returned
NoAttemptMade_orFailed(lastResult) == ~lastResult.success

\* line 96: !lastResult
NoAttemptMade(lastResult) == lastResult = NoResult

\* variant: the finally block clears the whole set
Finally_clearsAll(active, k, threw) == {}

\* variant: the marker is deleted after the try block, not in a finally
Finally_onlyOnReturn(active, k, threw) == IF threw THEN active ELSE active \ {k}

\* lines 70-72: finally { this.activeOperations.delete(workspaceFolder) }
Finally(active, k, threw) == active \ {k}

\* sync() resumes after the await of line 54: lines 56-72
SyncReturns(c) ==
  /\ calls[c].pc = "returning"
  /\ LET me == calls[c]
         k == me.workspaceFolder
         threw == IF me.thrown # "none" THEN me.thrown
                  ELSE IF NoAttemptMade(me.lastResult) THEN "NO_ATTEMPTS"
                  ELSE "none"
     IN  /\ IF threw # "none"
              THEN /\ UNCHANGED <<connections, clock, failRun>>
                   /\ calls' = [calls EXCEPT ![c] = [@ EXCEPT !.pc = "done", !.outcome = threw,
                                                          !.thrown = "none",
                                                          !.state = NoSnapshot, !.attempt = 0,
                                                          !.lastResult = NoResult]]
              ELSE /\ IF me.lastResult.success
                        THEN /\ connections' = MapSet(connections, k, SuccessState(me.state, clock))
                             /\ clock' = clock + 1
                             /\ failRun' = [failRun EXCEPT ![k] = 0]
                        ELSE /\ connections' = MapSet(connections, k, FailureState(me.state))
                             /\ failRun' = [failRun EXCEPT ![k] = @ + 1]
                             /\ UNCHANGED clock
                   /\ calls' = [calls EXCEPT ![c] = [@ EXCEPT !.pc = "done", !.outcome = "returned",
                                                          !.returned = me.lastResult,
                                                          !.state = NoSnapshot, !.attempt = 0,
                                                          !.lastResult = NoResult]]
         /\ activeOperations' = Finally(activeOperations, k, threw # "none")
  /\ UNCHANGED onlySyncs
  /\ UNCHANGED otherThanCm

\* ------------------------------------------------------------------ Next
Next ==
  \/ \E k \in Keys, config \in ConnectionConfig : SetConnection(k, config)
  \/ \E k \in Keys : RemoveConnection(k)
  \/ \E k \in Keys, config \in SettingsConnection : ConfigurationChanged(k, config)
  \/ \E c \in Calls, k \in Keys, n \in 0..MaxSyncRetry : SyncCall(c, k, n)
  \/ \E c \in Calls, ok \in BOOLEAN : ExecuteResolves(c, ok)
  \/ \E c \in Calls : DelayElapses(c)
  \/ \E c \in Calls : SyncReturns(c)

Spec == Init /\ [][Next]_vars

\* The retry loop on its own: sequential and overlapping sync calls on a
\* configured connection, with retry counts up to MaxRetry.
NextRetry ==
  \/ \E k \in Keys, config \in ConnectionConfig : SetConnection(k, config)
  \/ \E c \in (1..MaxRetryCalls) \cap Calls, k \in Keys, n \in 0..MaxRetry : SyncCall(c, k, n)
  \/ \E c \in Calls, ok \in BOOLEAN : ExecuteResolves(c, ok)
  \/ \E c \in Calls : DelayElapses(c)
  \/ \E c \in Calls : SyncReturns(c)

SpecRetry == Init /\ [][NextRetry]_vars

\* The interleavings again, with an executor whose execute() may reject (the
\* case the finally of lines 70-72 is written for).  Every executor attempt
\* settles, every backoff timer fires and every resumed await runs.
NextFaulty ==
  \/ \E k \in Keys, config \in ConnectionConfig : SetConnection(k, config)
  \/ \E k \in Keys : RemoveConnection(k)
  \/ \E k \in Keys, config \in SettingsConnection : ConfigurationChanged(k, config)
  \/ \E c \in (1..MaxFaultyCalls) \cap Calls, k \in Keys, n \in 0..MaxSyncRetry : SyncCall(c, k, n)
  \/ \E c \in Calls, ok \in BOOLEAN : ExecuteResolves(c, ok)
  \/ \E c \in Calls : ExecuteRejects(c)
  \/ \E c \in Calls : DelayElapses(c)
  \/ \E c \in Calls : SyncReturns(c)

ExecuteSettles(c) == ExecuteRejects(c) \/ \E ok \in BOOLEAN : ExecuteResolves(c, ok)

FairFaulty ==
  \A c \in Calls : /\ WF_vars(ExecuteSettles(c))
                    /\ WF_vars(DelayElapses(c))
                    /\ WF_vars(SyncReturns(c))

SpecFaulty == Init /\ [][NextFaulty]_vars /\ FairFaulty

\* =====================================================================
\* FileSyncManager
\* =====================================================================
\* vscode.workspace.getWorkspaceFolder(document.uri): the folder holding the document
InWorkspace(document, k) == startsWith(document, k \o "/")

\* path.relative(workspaceFolder.uri.fsPath, document.uri.fsPath) for a document in the folder
relative(from, to) == slice(to, Len(from) + 1)

\* GitignoreParser.load: a parser of the file's content, null if it cannot be read
load(file) == IF file.readable THEN GitignoreParser(file.content) ELSE NullParser

\* The relative paths, globs and parsers the inputs give rise to, and
\* minimatch, isIgnored and load on them, evaluated once.
RelativePaths ==
  {relative(x[1], x[2]) : x \in {y \in Keys \X Documents : InWorkspace(y[2], y[1])}}
TriggerPatterns == UNION {Range(t.patterns) \cup Range(t.excludePatterns) : t \in TriggerConfigs}
Loaded == [file \in GitignoreFiles |-> load(file)]
Parsers == {Loaded[file] : file \in GitignoreFiles}
Minimatched == [path \in RelativePaths, pattern \in TriggerPatterns |-> minimatch(path, pattern)]
Ignored == [parser \in Parsers, path \in RelativePaths |-> isIgnored(parser, path)]

\* line 61: gitignoreParser is neither undefined nor null
HasRules(parsers, k) == k \in DOMAIN parsers /\ ~parsers[k].isNull

\* variant: the universal wildcard is honoured before the exclude patterns
shouldTriggerSync_wildcardFirst(parsers, k, relativePath, triggerConfig) ==
  IF HasRules(parsers, k) /\ Ignored[parsers[k], relativePath]
    THEN FALSE
  ELSE IF "*" \in Range(triggerConfig.patterns)
    THEN TRUE
  ELSE IF \E i \in DOMAIN triggerConfig.excludePatterns :
            Minimatched[relativePath, triggerConfig.excludePatterns[i]]
    THEN FALSE
  ELSE \E i \in DOMAIN triggerConfig.patterns : Minimatched[relativePath, triggerConfig.patterns[i]]

\* variant: `*` is only ever used as a glob
shouldTriggerSync_globOnly(parsers, k, relativePath, triggerConfig) ==
  IF HasRules(parsers, k) /\ Ignored[parsers[k], relativePath]
    THEN FALSE
  ELSE IF \E i \in DOMAIN triggerConfig.excludePatterns :
            Minimatched[relativePath, triggerConfig.excludePatterns[i]]
    THEN FALSE
  ELSE \E i \in DOMAIN triggerConfig.patterns : Minimatched[relativePath, triggerConfig.patterns[i]]

\* shouldTriggerSync, lines 53-82
shouldTriggerSync(parsers, k, relativePath, triggerConfig) ==
  IF HasRules(parsers, k) /\ Ignored[parsers[k], relativePath]
    THEN FALSE
  ELSE IF \E i \in DOMAIN triggerConfig.excludePatterns :
            Minimatched[relativePath, triggerConfig.excludePatterns[i]]
    THEN FALSE
  ELSE IF "*" \in Range(triggerConfig.patterns)
    THEN TRUE
  ELSE \E i \in DOMAIN triggerConfig.patterns : Minimatched[relativePath, triggerConfig.patterns[i]]

\* variant: the timer already pending is left running
clearTimeout_keeps(ts, id) == ts

\* clearTimeout(timeout)
clearTimeout(ts, id) == [i \in DOMAIN ts \ {id} |-> ts[i]]

\* variant: the callback is scheduled without delay
TimeoutDelay_immediate(debounceMs) == 0

\* line 98: the delay handed to setTimeout
TimeoutDelay(debounceMs) == debounceMs

\* scheduleSync, lines 84-101, called by a handleSave invoked in epoch ep
scheduleSync(k, ep) ==
  LET id == saves + 1
      kept == IF k \in DOMAIN pendingSyncs THEN clearTimeout(timers, pendingSyncs[k]) ELSE timers
  IN  /\ timers' = MapSet(kept, id, [key |-> k, remaining |-> TimeoutDelay(DebounceTicks),
                                      epoch |-> ep])
      /\ pendingSyncs' = MapSet(pendingSyncs, k, id)
      /\ saves' = saves + 1
      /\ allWithin' = (allWithin /\ (sinceLast = NoSave \/ sinceLast < DebounceTicks))
      /\ allBeyond' = (allBeyond /\ (sinceLast = NoSave \/ sinceLast > DebounceTicks))
      /\ sinceLast' = 0

\* variant: a save that fails the gate cancels the pending timer
Gate_cancelsOnFail(k, document, triggerConfig, ep, parsers) ==
  LET relativePath == relative(k, document)
  IN  /\ IF shouldTriggerSync(parsers, k, relativePath, triggerConfig)
           THEN scheduleSync(k, ep)
           ELSE /\ timers' = IF k \in DOMAIN pendingSyncs
                                THEN clearTimeout(timers, pendingSyncs[k]) ELSE timers
                /\ pendingSyncs' = MapDelete(pendingSyncs, k)
                /\ UNCHANGED <<saves, allWithin, allBeyond, sinceLast>>
      /\ lastGate' = [relativePath |-> relativePath, triggerConfig |-> triggerConfig,
                      ignored |-> HasRules(parsers, k) /\ Ignored[parsers[k], relativePath],
                      scheduled |-> saves' # saves, evaluated |-> TRUE]

\* handleSave from line 46 on: the gate, then scheduleSync; parsers is the
\* map the gate reads
Gate(k, document, triggerConfig, ep, parsers) ==
  LET relativePath == relative(k, document)
  IN  /\ IF shouldTriggerSync(parsers, k, relativePath, triggerConfig)
           THEN scheduleSync(k, ep)
           ELSE UNCHANGED <<timers, pendingSyncs, saves, allWithin, allBeyond, sinceLast>>
      /\ lastGate' = [relativePath |-> relativePath, triggerConfig |-> triggerConfig,
                      ignored |-> HasRules(parsers, k) /\ Ignored[parsers[k], relativePath],
                      scheduled |-> saves' # saves, evaluated |-> TRUE]

\* registerWorkspace up to its await (lines 19-20)
RegisterWorkspace(k) ==
  /\ registrations < MaxRegistrations
  /\ registrations' = registrations + 1
  /\ syncCallbacks' = MapSet(syncCallbacks, k, epoch)
  /\ loads' = loads \cup {[id |-> handled + registrations, kind |-> "registerWorkspace", key |-> k,
                           document |-> "", triggerConfig |-> NoTrigger, epoch |-> epoch]}
  /\ UNCHANGED <<gitignoreParsers, pendingSyncs, timers, handled, epoch, sinceLast,
                 saves, allWithin, allBeyond, fired, silent, lastGate>>
  /\ UNCHANGED otherThanFs
  /\ UNCHANGED ioVars

\* unregisterWorkspace, lines 24-33
UnregisterWorkspace(k) ==
  /\ epoch < MaxTeardowns
  /\ timers' = IF k \in DOMAIN pendingSyncs THEN clearTimeout(timers, pendingSyncs[k]) ELSE timers
  /\ pendingSyncs' = MapDelete(pendingSyncs, k)
  /\ syncCallbacks' = MapDelete(syncCallbacks, k)
  /\ gitignoreParsers' = MapDelete(gitignoreParsers, k)
  /\ epoch' = epoch + 1
  /\ UNCHANGED <<loads, handled, registrations, sinceLast, saves, allWithin, allBeyond, fired, silent, lastGate>>
  /\ UNCHANGED otherThanFs
  /\ UNCHANGED ioVars

\* dispose, lines 103-110
Dispose ==
  /\ epoch < MaxTeardowns
  /\ timers' = [i \in DOMAIN timers \ Range(pendingSyncs) |-> timers[i]]
  /\ pendingSyncs' = [x \in {} |-> 0]
  /\ syncCallbacks' = [x \in {} |-> 0]
  /\ gitignoreParsers' = [x \in {} |-> NullParser]
  /\ epoch' = epoch + 1
  /\ UNCHANGED <<loads, handled, registrations, sinceLast, saves, allWithin, allBeyond, fired, silent, lastGate>>
  /\ UNCHANGED otherThanFs
  /\ UNCHANGED ioVars

\* handleSave up to its first await or its return (lines 36-50)
HandleSave(document, triggerConfig) ==
  /\ handled < MaxSaves
  /\ handled' = handled + 1
  /\ IF \A k \in Keys : ~InWorkspace(document, k)
       THEN UNCHANGED <<timers, pendingSyncs, saves, allWithin, allBeyond, sinceLast, lastGate,
                        loads>>
       ELSE LET k == CHOOSE w \in Keys : InWorkspace(document, w)
            IN  IF endsWith(document, ".gitignore")
                  THEN /\ loads' = loads \cup
                            {[id |-> handled + registrations, kind |-> "handleSave", key |-> k,
                              document |-> document, triggerConfig |-> triggerConfig,
                              epoch |-> epoch]}
                       /\ UNCHANGED <<timers, pendingSyncs, saves, allWithin, allBeyond, sinceLast,
                                     lastGate>>
                  ELSE /\ Gate(k, document, triggerConfig, epoch, gitignoreParsers)
                       /\ UNCHANGED loads
  /\ UNCHANGED <<syncCallbacks, gitignoreParsers, registrations, epoch, fired, silent>>
  /\ UNCHANGED otherThanFs
  /\ UNCHANGED reads

\* a GitignoreParser.load settles and its caller resumes: registerWorkspace
\* at line 21, handleSave at lines 43-50
LoadSettles(l, file) ==
  /\ l \in loads
  /\ loads' = loads \ {l}
  /\ gitignoreParsers' = MapSet(gitignoreParsers, l.key, Loaded[file])
  /\ IF l.kind = "handleSave"
       THEN Gate(l.key, l.document, l.triggerConfig, l.epoch, gitignoreParsers')
       ELSE UNCHANGED <<timers, pendingSyncs, saves, allWithin, allBeyond, sinceLast,
                                     lastGate>>
  /\ UNCHANGED <<syncCallbacks, handled, registrations, epoch, fired, silent>>
  /\ UNCHANGED otherThanFs
  /\ reads' = MapDelete(reads, l.id)
  /\ UNCHANGED disk

\* the setTimeout callback of lines 92-98 runs
TimerFires(id) ==
  /\ id \in DOMAIN timers
  /\ timers[id].remaining = 0
  /\ timers' = [i \in DOMAIN timers \ {id} |-> timers[i]]
  /\ pendingSyncs' = MapDelete(pendingSyncs, timers[id].key)
  /\ IF timers[id].key \in DOMAIN syncCallbacks
       THEN fired' = fired + 1 /\ UNCHANGED silent
       ELSE silent' = silent + 1 /\ UNCHANGED fired
  /\ UNCHANGED <<syncCallbacks, gitignoreParsers, loads, handled, registrations, epoch,
                 sinceLast, saves, allWithin, allBeyond, lastGate>>
  /\ UNCHANGED otherThanFs
  /\ UNCHANGED ioVars

\* one tick of time passes; a timer that is due runs before the next tick
Tick ==
  /\ \A id \in DOMAIN timers : timers[id].remaining > 0
  /\ DOMAIN timers # {} \/ (sinceLast # NoSave /\ sinceLast < TickCap)
  /\ timers' = [id \in DOMAIN timers |-> [timers[id] EXCEPT !.remaining = @ - 1]]
  /\ sinceLast' = IF sinceLast = NoSave \/ sinceLast = TickCap THEN sinceLast ELSE sinceLast + 1
  /\ UNCHANGED <<syncCallbacks, gitignoreParsers, pendingSyncs, loads, handled, registrations, epoch,
                 saves, allWithin, allBeyond, fired, silent, lastGate>>
  /\ UNCHANGED otherThanFs
  /\ UNCHANGED ioVars

\* The save gate: registrations, saves of every document under every
\* trigger configuration, and ignore-file (re)loads.
NextGate ==
  \/ \E k \in Keys : RegisterWorkspace(k)
  \/ \E document \in Documents, triggerConfig \in TriggerConfigs :
       handled < MaxGateSaves /\ HandleSave(document, triggerConfig) /\ UNCHANGED disk
  \/ \E l \in loads, file \in GitignoreFiles : LoadSettles(l, file)

SpecGate == Init /\ [][NextGate]_vars

\* The save gate with the passing of time and the timers it leaves pending.
NextQuiet ==
  \/ NextGate
  \/ \E id \in DOMAIN timers : TimerFires(id)
  \/ Tick

SpecQuiet == Init /\ [][NextQuiet]_vars

\* The debounce: saves under one trigger configuration, reloads, timers,
\* the passing of time, and teardowns.
DebounceDocuments == {"/workspace/path/main.py", "/workspace/path/.gitignore"}
DebounceTriggers == {[patterns |-> <<"*">>, excludePatterns |-> <<"*.log">>]}
DebounceFiles == {file \in GitignoreFiles : ~file.readable \/ startsWith(file.content, "#")}

NextDebounce ==
  \/ \E k \in Keys : RegisterWorkspace(k)
  \/ \E k \in Keys : UnregisterWorkspace(k)
  \/ Dispose
  \/ \E document \in DebounceDocuments, triggerConfig \in DebounceTriggers :
       HandleSave(document, triggerConfig) /\ UNCHANGED disk
  \/ \E l \in loads, file \in DebounceFiles : LoadSettles(l, file)
  \/ \E id \in DOMAIN timers : TimerFires(id)
  \/ Tick

SpecDebounce == Init /\ [][NextDebounce]_vars

\* The ignore file on disk: the editor writes it and then reports the save,
\* each load reads it at some moment between its start and its end.
IgnoreFileDocuments == {document \in Documents : endsWith(document, ".gitignore")}

\* the editor saves a document other than the ignore file
SaveDocument(document, triggerConfig) ==
  /\ document \notin IgnoreFileDocuments
  /\ HandleSave(document, triggerConfig)
  /\ UNCHANGED disk

\* the editor saves the ignore file with a new content
SaveGitignore(document, file, triggerConfig) ==
  /\ document \in IgnoreFileDocuments
  /\ file.readable
  /\ disk' = file
  /\ HandleSave(document, triggerConfig)

\* fs.readFile of a pending load reads the file (gitignore.ts line 12)
LoadReads(l) ==
  /\ l \in loads
  /\ l.id \notin DOMAIN reads
  /\ reads' = MapSet(reads, l.id, disk)
  /\ UNCHANGED <<disk, fsVars>>
  /\ UNCHANGED otherThanFs

\* the load settles with what it has read
LoadReturns(l) ==
  /\ l.id \in DOMAIN reads
  /\ LoadSettles(l, reads[l.id])

InitReload ==
  \E file \in GitignoreFiles :
    /\ connections = [x \in {} |-> NoSnapshot]
    /\ activeOperations = {}
    /\ calls = [c \in Calls |-> IdleCall]
    /\ clock = 1
    /\ failRun = [k \in Keys |-> 0]
    /\ onlySyncs = [k \in Keys |-> FALSE]
    /\ syncCallbacks = [x \in {} |-> 0]
    /\ gitignoreParsers = [x \in {} |-> NullParser]
    /\ pendingSyncs = [x \in {} |-> 0]
    /\ timers = [x \in {} |-> NoTimer]
    /\ loads = {}
    /\ handled = 0
    /\ registrations = 0
    /\ epoch = 0
    /\ sinceLast = NoSave
    /\ saves = 0
    /\ allWithin = TRUE
    /\ allBeyond = TRUE
    /\ fired = 0
    /\ silent = 0
    /\ lastGate = NoGate
    /\ disk = file
    /\ reads = [x \in {} |-> NoFile]
    /\ rsync = NotCalled
    /\ promise = NoPromise
    /\ emitted = <<>>
    /\ ui = [c \in Calls |-> NotStarted]
    /\ settings = NoSettings
    /\ updates = [u \in Updates |-> NoUpdate]
    /\ sshConfig = <<>>
    /\ hosts = <<>>
    /\ workspaceStates = [x \in {} |-> "disabled"]

NextReload ==
  \/ \E k \in Keys : RegisterWorkspace(k)
  \/ \E document \in Documents, triggerConfig \in TriggerConfigs :
       handled < MaxGateSaves /\ SaveDocument(document, triggerConfig)
  \/ \E document \in Documents, file \in GitignoreFiles, triggerConfig \in TriggerConfigs :
       handled < MaxGateSaves /\ SaveGitignore(document, file, triggerConfig)
  \/ \E l \in loads : LoadReads(l)
  \/ \E l \in loads : LoadReturns(l)

SpecReload == InitReload /\ [][NextReload]_vars


\* =====================================================================
\* RsyncExecutor.execute
\* =====================================================================
\* resolve(value) of a promise: only the first call settles it
\* variant: a later resolve replaces the value
Resolve_overwrites(p, value) == [state |-> "fulfilled", value |-> value]

Resolve(p, value) == IF p.state = "pending" THEN [state |-> "fulfilled", value |-> value] ELSE p

\* the SyncResult of the close handler, lines 48-68 (duration is left out)
\* variant: every exit code counts as a success
CloseResult_alwaysSuccess(code, stdout, stderr) ==
  LET stats == parseStats(stdout)
  IN  [success |-> TRUE, filesTransferred |-> stats.filesTransferred,
       bytesTransferred |-> stats.bytesTransferred, error |-> NoError]

CloseResult(code, stdout, stderr) ==
  IF code = 0
    THEN LET stats == parseStats(stdout)
         IN  [success |-> TRUE, filesTransferred |-> stats.filesTransferred,
              bytesTransferred |-> stats.bytesTransferred, error |-> NoError]
    ELSE [success |-> FALSE, filesTransferred |-> 0, bytesTransferred |-> 0,
          error |-> Error("Rsync failed with code " \o CodeText(code) \o ": " \o stderr)]

\* the SyncResult of the error handler, lines 70-78
ErrorResult(error) ==
  [success |-> FALSE, filesTransferred |-> 0, bytesTransferred |-> 0, error |-> error]

\* execute(dryRun) is called and awaits buildArguments
Execute(localPath, syncConfig, dryRun) ==
  /\ rsync.pc = "idle"
  /\ rsync' = [rsync EXCEPT !.pc = "building", !.localPath = localPath,
                            !.syncConfig = syncConfig, !.dryRun = dryRun]
  /\ promise' = [state |-> "pending", value |-> Unsettled]
  /\ UNCHANGED emitted
  /\ UNCHANGED otherThanRx

\* buildArguments returns, with fileExists resolved to exists, and rsync is spawned
Spawn(exists) ==
  /\ rsync.pc = "building"
  /\ rsync' = [rsync EXCEPT !.pc = "running",
                 !.args = buildArguments(rsync.localPath, ExecutorConnection,
                                         rsync.syncConfig, rsync.dryRun, exists)]
  /\ UNCHANGED <<promise, emitted>>
  /\ UNCHANGED otherThanRx

\* rsync.stdout.on('data')
StdoutData(chunk) ==
  /\ rsync.pc = "running"
  /\ ~rsync.closed
  /\ rsync.chunks < MaxChunks
  /\ rsync' = [rsync EXCEPT !.stdout = @ \o chunk, !.chunks = @ + 1]
  /\ UNCHANGED <<promise, emitted>>
  /\ UNCHANGED otherThanRx

\* rsync.stderr.on('data')
StderrData(chunk) ==
  /\ rsync.pc = "running"
  /\ ~rsync.closed
  /\ rsync.chunks < MaxChunks
  /\ rsync' = [rsync EXCEPT !.stderr = @ \o chunk, !.chunks = @ + 1]
  /\ UNCHANGED <<promise, emitted>>
  /\ UNCHANGED otherThanRx

\* rsync.on('close'): emitted once, after the streams have ended
Close(code) ==
  /\ rsync.pc = "running"
  /\ ~rsync.closed
  /\ rsync' = [rsync EXCEPT !.closed = TRUE]
  /\ promise' = Resolve(promise, CloseResult(code, rsync.stdout, rsync.stderr))
  /\ emitted' = Append(emitted, [event |-> "close", code |-> code, error |-> NoError])
  /\ UNCHANGED otherThanRx

\* rsync.on('error'): the process could not be spawned, killed or signalled
ErrorEvent(error) ==
  /\ rsync.pc = "running"
  /\ ~rsync.errored
  /\ rsync' = [rsync EXCEPT !.errored = TRUE]
  /\ promise' = Resolve(promise, ErrorResult(error))
  /\ emitted' = Append(emitted, [event |-> "error", code |-> Signalled, error |-> error])
  /\ UNCHANGED otherThanRx

ProcessEnds == (\E code \in ExitCodes : Close(code)) \/ (\E error \in SpawnErrors : ErrorEvent(error))

NextExecute ==
  \/ \E localPath \in LocalPaths, syncConfig \in SyncConfigs, dryRun \in BOOLEAN :
       Execute(localPath, syncConfig, dryRun)
  \/ \E exists \in BOOLEAN : Spawn(exists)
  \/ \E chunk \in StdoutChunks : StdoutData(chunk)
  \/ \E chunk \in StderrChunks : StderrData(chunk)
  \/ \E code \in ExitCodes : Close(code)
  \/ \E error \in SpawnErrors : ErrorEvent(error)

\* the file check of buildArguments settles, and a spawned process ends or
\* fails to start
FairExecute ==
  /\ WF_vars(\E exists \in BOOLEAN : Spawn(exists))
  /\ WF_vars(ProcessEnds)

SpecExecute == Init /\ [][NextExecute]_vars /\ FairExecute


\* =====================================================================
\* performSync (extension.ts, commands/index.ts) and NotificationManager
\* =====================================================================
\* performSync up to its await of connectionManager.sync; the command's
\* performSync first checks that the configured connection is enabled
PerformSync(c, request, enabled) ==
  /\ ui[c].pc = "idle"
  /\ \A d \in Calls : d < c => ui[d].pc # "idle"
  /\ ui' = [ui EXCEPT ![c] =
       IF request.origin = "command" /\ ~enabled
         THEN [pc |-> "done", notice |-> "notConfigured", request |-> request]
         ELSE [pc |-> "calling", notice |-> "none", request |-> request]]
  /\ workspaceStates' =
       IF request.origin = "command" /\ ~enabled
         THEN workspaceStates
         ELSE setWorkspaceState(workspaceStates, calls[c].workspaceFolder, "syncing")
  /\ UNCHANGED cmVars
  /\ UNCHANGED notCmNorUi

\* the sync did not return a successful result: it returned a failed one or threw
Failed(c) == ~(calls[c].outcome = "returned" /\ calls[c].returned.success)

\* NotificationManager.showSyncError: a prompt unless notifications are off
showSyncError(shown, request) ==
  IF request.showNotifications
    THEN [shown EXCEPT !.pc = "prompting", !.notice = "prompt"]
    ELSE [shown EXCEPT !.pc = "done", !.notice = "none"]

\* variant: no caller compares the failure count with the threshold
Escalates_never(request) == FALSE

\* the catch block compares the failure count with the threshold in
\* extension.ts (lines 97-99) and not in commands/index.ts (lines 153-173)
Escalates(request) == request.origin = "extension"

\* the await of connectionManager.sync resumes: success notice, or catch block
Reports(c) ==
  /\ ui[c].pc = "calling"
  /\ calls[c].pc = "done"
  /\ LET request == ui[c].request
         failureCount == getFailureCount(calls[c].workspaceFolder)
     IN  ui' = [ui EXCEPT ![c] =
           IF ~Failed(c)
             THEN [@ EXCEPT !.pc = "done", !.notice = "success"]
             ELSE IF Escalates(request) /\ failureCount >= MAX_FAILURE_COUNT
               THEN [@ EXCEPT !.pc = "done", !.notice = "connectionLost"]
               ELSE showSyncError(@, request)]
  /\ workspaceStates' = setWorkspaceState(workspaceStates, calls[c].workspaceFolder,
                                           IF Failed(c) THEN "error" ELSE "idle")
  /\ UNCHANGED cmVars
  /\ UNCHANGED notCmNorUi

\* the user answers the prompt of showSyncError: 'retry' calls performSync
\* again with the same arguments, 'disable' removes the connection
Chooses(c, choice) ==
  /\ ui[c].pc = "prompting"
  /\ LET k == calls[c].workspaceFolder
     IN  CASE choice = "retry" ->
                /\ \E d \in Calls :
                     /\ ui[d].pc = "idle"
                     /\ \A e \in Calls : e < d => ui[e].pc # "idle"
                     /\ ui' = [ui EXCEPT ![c] = [@ EXCEPT !.pc = "done"],
                                         ![d] = [pc |-> "calling", notice |-> "none",
                                                 request |-> ui[c].request]]
                /\ workspaceStates' = setWorkspaceState(workspaceStates, k, "syncing")
                /\ UNCHANGED cmVars
           [] choice = "disable" ->
                /\ ui' = [ui EXCEPT ![c] = [@ EXCEPT !.pc = "done"]]
                /\ connections' = MapDelete(connections, k)
                /\ activeOperations' = activeOperations \ {k}
                /\ onlySyncs' = [onlySyncs EXCEPT ![k] = FALSE]
                /\ workspaceStates' = setWorkspaceState(workspaceStates, k, "disabled")
                /\ UNCHANGED <<calls, clock, failRun>>
           [] OTHER ->
                /\ ui' = [ui EXCEPT ![c] = [@ EXCEPT !.pc = "done"]]
                /\ UNCHANGED <<cmVars, workspaceStates>>
  /\ UNCHANGED notCmNorUi

Choices == {"retry", "reconfigure", "disable", "dismissed"}

\* a workspace whose connection has already seen some failed syncs
InitNotify ==
  \E failures \in 0..MAX_FAILURE_COUNT :
    /\ connections = [k \in Keys |->
         [NewState([host |-> "server", remotePath |-> "/remote/path", enabled |-> TRUE])
            EXCEPT !.failureCount = failures]]
    /\ activeOperations = {}
    /\ calls = [c \in Calls |-> IdleCall]
    /\ clock = 1
    /\ failRun = [k \in Keys |-> failures]
    /\ onlySyncs = [k \in Keys |-> TRUE]
    /\ syncCallbacks = [x \in {} |-> 0]
    /\ gitignoreParsers = [x \in {} |-> NullParser]
    /\ pendingSyncs = [x \in {} |-> 0]
    /\ timers = [x \in {} |-> NoTimer]
    /\ loads = {}
    /\ handled = 0
    /\ registrations = 0
    /\ epoch = 0
    /\ sinceLast = NoSave
    /\ saves = 0
    /\ allWithin = TRUE
    /\ allBeyond = TRUE
    /\ fired = 0
    /\ silent = 0
    /\ lastGate = NoGate
    /\ disk = NoFile
    /\ reads = [x \in {} |-> NoFile]
    /\ rsync = NotCalled
    /\ promise = NoPromise
    /\ emitted = <<>>
    /\ ui = [c \in Calls |-> NotStarted]
    /\ settings = NoSettings
    /\ updates = [u \in Updates |-> NoUpdate]
    /\ sshConfig = <<>>
    /\ hosts = <<>>
    /\ workspaceStates = [k \in Keys |-> "idle"]

NextNotify ==
  \/ \E c \in Calls, request \in SyncRequests, enabled \in BOOLEAN : PerformSync(c, request, enabled)
  \/ \E c \in Calls, k \in Keys : ui[c].pc = "calling" /\ SyncCall(c, k, 0)
  \/ \E c \in Calls, ok \in BOOLEAN : ExecuteResolves(c, ok)
  \/ \E c \in Calls : SyncReturns(c)
  \/ \E c \in Calls : Reports(c)
  \/ \E c \in Calls, choice \in Choices : Chooses(c, choice)

SpecNotify == InitNotify /\ [][NextNotify]_vars

\* The dry run: CommandRegistry.dryRun and syncNow call performSync with
\* dryRun true and false; performSync hands the flag to connectionManager.sync,
\* which hands it to every executor.execute of the retry loop.
DryRequests == {r \in SyncRequests : r.origin = "command" /\ r.trigger = "manual"}

\* the dryRun argument of the sync call that performSync c makes
DryRun(c) == ui[c].request.dryRun

NextDry ==
  \/ \E c \in 1..MaxDryCalls, request \in DryRequests, enabled \in BOOLEAN :
       PerformSync(c, request, enabled)
  \/ \E c \in Calls, k \in Keys, n \in 0..MaxDryRetry : ui[c].pc = "calling" /\ SyncCall(c, k, n)
  \/ \E c \in Calls, ok \in BOOLEAN : ExecuteResolves(c, ok)
  \/ \E c \in Calls : DelayElapses(c)
  \/ \E c \in Calls : SyncReturns(c)
  \/ \E c \in Calls : Reports(c)

SpecDry == InitNotify /\ [][NextDry]_vars

\* The retry chain of the save callback: one save-triggered performSync whose
\* transfers all fail and whose error prompts are all answered with 'retry'.
\* Every executor attempt settles, every backoff timer fires, every resumed
\* await runs, and the user answers every prompt.
SaveRequests == {r \in SyncRequests : r.origin = "extension"}

NextChain ==
  \/ \E c \in {1}, request \in SaveRequests : PerformSync(c, request, TRUE)
  \/ \E c \in Calls, k \in Keys, n \in 0..MaxSyncRetry : ui[c].pc = "calling" /\ SyncCall(c, k, n)
  \/ \E c \in Calls : ExecuteResolves(c, FALSE)
  \/ \E c \in Calls : DelayElapses(c)
  \/ \E c \in Calls : SyncReturns(c)
  \/ \E c \in Calls : Reports(c)
  \/ \E c \in Calls : Chooses(c, "retry")

FairChain ==
  \A c \in Calls : /\ WF_vars(\E k \in Keys, n \in 0..MaxSyncRetry : ui[c].pc = "calling" /\ SyncCall(c, k, n))
                    /\ WF_vars(ExecuteResolves(c, FALSE))
                    /\ WF_vars(DelayElapses(c))
                    /\ WF_vars(SyncReturns(c))
                    /\ WF_vars(Reports(c))
                    /\ WF_vars(Chooses(c, "retry"))

SpecChain == InitNotify /\ [][NextChain]_vars /\ FairChain

\* The status bar: performSync of both callers, overlapping on one workspace,
\* and configuration changes while syncs are in flight.
NextStatus ==
  \/ \E c \in 1..MaxStatusCalls, request \in SyncRequests, enabled \in BOOLEAN :
       PerformSync(c, request, enabled)
  \/ \E c \in Calls, k \in Keys : ui[c].pc = "calling" /\ SyncCall(c, k, 0)
  \/ \E c \in Calls, ok \in BOOLEAN : ExecuteResolves(c, ok)
  \/ \E c \in Calls : SyncReturns(c)
  \/ \E c \in Calls : Reports(c)
  \/ \E k \in Keys, config \in SettingsConnection : ConfigurationChanged(k, config)

SpecStatus == InitNotify /\ [][NextStatus]_vars

\* From a save to its sync: the workspace of initializeWorkspace (connection
\* set, FileSyncManager registered with the callback of lines 50-52), eligible
\* saves, the debounce timer, and the performSync its callback starts.
SaveSyncDocuments == {"/workspace/path/main.py"}

\* performSync invocations so far
Performed == {c \in Calls : ui[c].pc # "idle"}

\* the onSync callback of lines 50-52: void performSync(workspaceFolder, SyncTrigger.Save)
OnSync(c, request) ==
  /\ fired > Cardinality(Performed)
  /\ PerformSync(c, request, TRUE)

NextSaveSync ==
  \/ \E k \in Keys : registrations = 0 /\ RegisterWorkspace(k)
  \/ \E l \in loads, file \in DebounceFiles : LoadSettles(l, file)
  \/ \E document \in SaveSyncDocuments, triggerConfig \in DebounceTriggers :
       /\ handled < MaxSyncSaves
       /\ Keys \subseteq DOMAIN syncCallbacks
       /\ HandleSave(document, triggerConfig) /\ UNCHANGED disk
  \/ \E id \in DOMAIN timers : TimerFires(id)
  \/ Tick
  \/ \E c \in Calls, request \in SaveRequests : OnSync(c, request)
  \/ \E c \in Calls, k \in Keys : ui[c].pc = "calling" /\ SyncCall(c, k, 0)
  \/ \E c \in Calls, ok \in BOOLEAN : ExecuteResolves(c, ok)
  \/ \E c \in Calls : SyncReturns(c)
  \/ \E c \in Calls : Reports(c)

\* Timers that are due fire, time passes, the callback's performSync runs,
\* every executor attempt settles and every resumed await runs.
FairSaveSync ==
  /\ WF_vars(Tick)
  /\ WF_vars(\E id \in DOMAIN timers : TimerFires(id))
  /\ WF_vars(\E l \in loads, file \in DebounceFiles : LoadSettles(l, file))
  /\ \A c \in Calls :
       /\ WF_vars(\E request \in SaveRequests : OnSync(c, request))
       /\ WF_vars(\E k \in Keys : ui[c].pc = "calling" /\ SyncCall(c, k, 0))
       /\ WF_vars(\E ok \in BOOLEAN : ExecuteResolves(c, ok))
       /\ WF_vars(SyncReturns(c))
       /\ WF_vars(Reports(c))

SpecSaveSync == InitNotify /\ [][NextSaveSync]_vars /\ FairSaveSync


\* =====================================================================
\* ConnectionManager with two workspaces
\* =====================================================================
OtherKey == "/workspace/other"
BothKeys == Keys \cup {OtherKey}

InitTwo ==
  /\ connections = [x \in {} |-> NoSnapshot]
  /\ activeOperations = {}
  /\ calls = [c \in Calls |-> IdleCall]
  /\ clock = 1
  /\ failRun = [k \in BothKeys |-> 0]
  /\ onlySyncs = [k \in BothKeys |-> FALSE]
  /\ syncCallbacks = [x \in {} |-> 0]
  /\ gitignoreParsers = [x \in {} |-> NullParser]
  /\ pendingSyncs = [x \in {} |-> 0]
  /\ timers = [x \in {} |-> NoTimer]
  /\ loads = {}
  /\ handled = 0
  /\ registrations = 0
  /\ epoch = 0
  /\ sinceLast = NoSave
  /\ saves = 0
  /\ allWithin = TRUE
  /\ allBeyond = TRUE
  /\ fired = 0
  /\ silent = 0
  /\ lastGate = NoGate
  /\ disk = NoFile
  /\ reads = [x \in {} |-> NoFile]
  /\ rsync = NotCalled
  /\ promise = NoPromise
  /\ emitted = <<>>
  /\ ui = [c \in Calls |-> NotStarted]
  /\ settings = NoSettings
  /\ updates = [u \in Updates |-> NoUpdate]
  /\ sshConfig = <<>>
  /\ hosts = <<>>
  /\ workspaceStates = [x \in {} |-> "disabled"]

NextTwo ==
  \/ \E k \in BothKeys, config \in ConnectionConfig : SetConnection(k, config)
  \/ \E k \in BothKeys : RemoveConnection(k)
  \/ \E c \in (1..MaxTwoCalls) \cap Calls, k \in BothKeys : SyncCall(c, k, 0)
  \/ \E c \in Calls, ok \in BOOLEAN : ExecuteResolves(c, ok)
  \/ \E c \in Calls : SyncReturns(c)

SpecTwo == InitTwo /\ [][NextTwo]_vars


\* =====================================================================
\* ConfigurationProvider.persistWorkspaceSettings
\* =====================================================================
\* parseJsonSafe, validation.ts lines 27-37: the parsed value if the content
\* is JSON and the value is an object that is not an array, null otherwise
parseJsonSafe(file) ==
  IF file.syntax = "json" THEN [isNull |-> FALSE, value |-> file.entries]
  ELSE [isNull |-> TRUE, value |-> EmptyObject]

\* lines 266-275: the parsed file, {} if it cannot be read or parsed
ReadCurrent(file) ==
  IF ~file.exists THEN EmptyObject
  ELSE LET parsed == parseJsonSafe(file)
       IN  IF parsed.isNull THEN EmptyObject ELSE parsed.value

\* lines 277-285: current[key] = value for each field that is not undefined
Merge(current, connection) ==
  [key \in DOMAIN current \cup DOMAIN connection |->
     IF key \in DOMAIN connection THEN connection[key] ELSE current[key]]

\* persistWorkspaceSettings is called and awaits mkdir (lines 261-264)
Persist(u, connection) ==
  /\ updates[u].pc = "idle"
  /\ \A v \in Updates : v < u => updates[v].pc # "idle"
  /\ updates' = [updates EXCEPT ![u] = [pc |-> "reading", connection |-> connection,
                                        current |-> EmptyObject]]
  /\ UNCHANGED settings
  /\ UNCHANGED otherThanPs

\* readFile settles; the merge runs and writeFile is called (lines 266-287)
ReadsSettings(u) ==
  /\ updates[u].pc = "reading"
  /\ updates' = [updates EXCEPT ![u] =
       [@ EXCEPT !.pc = "writing", !.current = Merge(ReadCurrent(settings), updates[u].connection)]]
  /\ UNCHANGED settings
  /\ UNCHANGED otherThanPs

\* writeFile replaces the file by JSON.stringify(current, null, 2) (line 287)
WritesSettings(u) ==
  /\ updates[u].pc = "writing"
  /\ settings' = JsonObject(updates[u].current)
  /\ updates' = [updates EXCEPT ![u] = [@ EXCEPT !.pc = "done"]]
  /\ UNCHANGED otherThanPs

InitPersist ==
  \E file \in SettingsFiles :
    /\ connections = [x \in {} |-> NoSnapshot]
    /\ activeOperations = {}
    /\ calls = [c \in Calls |-> IdleCall]
    /\ clock = 1
    /\ failRun = [k \in Keys |-> 0]
    /\ onlySyncs = [k \in Keys |-> FALSE]
    /\ syncCallbacks = [x \in {} |-> 0]
    /\ gitignoreParsers = [x \in {} |-> NullParser]
    /\ pendingSyncs = [x \in {} |-> 0]
    /\ timers = [x \in {} |-> NoTimer]
    /\ loads = {}
    /\ handled = 0
    /\ registrations = 0
    /\ epoch = 0
    /\ sinceLast = NoSave
    /\ saves = 0
    /\ allWithin = TRUE
    /\ allBeyond = TRUE
    /\ fired = 0
    /\ silent = 0
    /\ lastGate = NoGate
    /\ disk = NoFile
    /\ reads = [x \in {} |-> NoFile]
    /\ rsync = NotCalled
    /\ promise = NoPromise
    /\ emitted = <<>>
    /\ ui = [c \in Calls |-> NotStarted]
    /\ settings = file
    /\ updates = [u \in Updates |-> NoUpdate]
    /\ sshConfig = <<>>
    /\ hosts = <<>>
    /\ workspaceStates = [x \in {} |-> "disabled"]

NextPersist ==
  \/ \E u \in Updates, connection \in ConnectionUpdates : Persist(u, connection)
  \/ \E u \in Updates : ReadsSettings(u)
  \/ \E u \in Updates : WritesSettings(u)

SpecPersist == InitPersist /\ [][NextPersist]_vars


\* =====================================================================
\* SshConfigParser
\* =====================================================================
\* A parsed ssh config: its Host sections in file order; "" stands for a
\* directive the section does not have.
HostValues == {"dev-server", "db.internal", "gitlab.com", "git", "*", "*.internal"}
HostNames == {"", "prod.example.com", "github.com"}
Users == {"", "developer", "git"}
Sections == [value : HostValues, HostName : HostNames, User : Users]
SshConfigs == UNION {[1..n -> Sections] : n \in 0..MaxSections}

\* pattern.test(s) for some pattern of EXCLUDED_PATTERNS (lines 9-15)
EXCLUDED_PATTERNS(s) ==
  \/ endsWith(s, "github.com")
  \/ endsWith(s, "gitlab.com")
  \/ endsWith(s, "bitbucket.org")
  \/ endsWith(s, "heroku.com")
  \/ s = "git"

\* config.compute(hostName)[param] of ssh-config: the value of the first
\* section whose Host pattern matches the name and that has the directive
RECURSIVE compute(_, _, _, _)
compute(config, i, hostName, param) ==
  IF i > Len(config) THEN ""
  ELSE IF WildMatch(hostName, 1, config[i].value, 1) /\ config[i][param] # ""
    THEN config[i][param]
    ELSE compute(config, i + 1, hostName, param)

\* shouldExclude, lines 57-63
shouldExclude(hostValue) ==
  includes(hostValue, "*") \/ includes(hostValue, "?") \/ EXCLUDED_PATTERNS(hostValue)

NoHost == [isNull |-> TRUE, name |-> "", hostname |-> "", user |-> ""]

\* extractHostConfig, lines 65-87 (port is left out)
extractHostConfig(config, hostName) ==
  LET hostnameRaw == compute(config, 1, hostName, "HostName")
      hostname == IF hostnameRaw # "" THEN hostnameRaw ELSE hostName
      user == compute(config, 1, hostName, "User")
  IN  IF user = "git" \/ EXCLUDED_PATTERNS(hostname)
        THEN NoHost
        ELSE [isNull |-> FALSE, name |-> hostName, hostname |-> hostname, user |-> user]

\* extractHosts, lines 35-55: the loop from section i on
RECURSIVE extractHosts(_, _)
extractHosts(config, i) ==
  IF i > Len(config) THEN <<>>
  ELSE LET hostValue == config[i].value
           hostConfig == extractHostConfig(config, hostValue)
       IN  IF shouldExclude(hostValue) \/ hostConfig.isNull
             THEN extractHosts(config, i + 1)
             ELSE <<hostConfig>> \o extractHosts(config, i + 1)

\* parseHosts, lines 19-33, on a config file that parses to config
ParseHosts(config) ==
  /\ sshConfig = <<>>
  /\ config # <<>>
  /\ sshConfig' = config
  /\ hosts' = extractHosts(config, 1)
  /\ UNCHANGED otherThanSsh

NextDiscovery == \E config \in SshConfigs : ParseHosts(config)

SpecDiscovery == Init /\ [][NextDiscovery]_vars

\* =====================================================================
\* Properties
\* =====================================================================
\* the step in which call c is invoked on key k
Invoked(c, k) == calls[c].pc = "idle" /\ calls'[c].pc # "idle" /\ calls'[c].workspaceFolder = k

\* the step in which call c on key k returns its final result
Completes(c, k) == calls[c].pc = "returning" /\ calls'[c].pc = "done" /\ calls[c].workspaceFolder = k

Returned(c) == calls[c].pc = "done" /\ calls[c].outcome = "returned"

Executing(k) == {c \in Calls : calls[c].pc = "executing" /\ calls[c].workspaceFolder = k}

\* C1: a sync call made (on a key with an enabled connection, which sync
\* checks first) while an earlier sync call for the same key has not resolved
\* is rejected with SYNC_IN_PROGRESS and invokes no executor.
C1_ConcurrentSyncRejected ==
  [][\A c \in Calls, k \in Keys :
       (/\ Invoked(c, k)
        /\ InFlightOn(k) # {}
        /\ k \in DOMAIN connections
        /\ connections[k].config.enabled)
         => (calls'[c].outcome = SYNC_IN_PROGRESS /\ calls'[c].executed = 0)]_vars

\* C2: at most one executor attempt is running for a workspace key, under
\* any interleaving of setConnection, removeConnection, configuration
\* changes and sync calls.
C2_AtMostOneTransfer == \A k \in Keys : Cardinality(Executing(k)) <= 1

\* C3: isActive(key) holds exactly when exactly one sync call for the key
\* is in flight (past its precondition checks, not yet returned or thrown).
C3_ActiveIffOneInFlight == \A k \in Keys : isActive(k) <=> (Cardinality(InFlightOn(k)) = 1)

\* C4: a sync call with retryCount n whose attempts all fail invokes the
\* executor exactly n+1 times and returns the result of the last attempt.
C4_AlwaysFailingRuns ==
  \A c \in Calls :
    (Returned(c) /\ \A i \in DOMAIN calls[c].results : ~calls[c].results[i].success)
      => /\ calls[c].executed = calls[c].maxRetries + 1
         /\ Len(calls[c].results) = calls[c].maxRetries + 1
         /\ calls[c].returned = calls[c].results[calls[c].maxRetries + 1]
         /\ calls[c].returned.attempt = calls[c].maxRetries + 1

C4_Witness ==
  \E c \in Calls : /\ Returned(c)
                   /\ calls[c].maxRetries = MaxRetry
                   /\ ~calls[c].returned.success
                   /\ calls[c].executed = MaxRetry + 1

\* C5: once attempt k of a sync call succeeds (the k-1 before it having
\* failed, k <= n+1), the executor has been invoked exactly k times, no
\* further attempt or backoff wait follows, and the call returns that result.
C5_StopsAtFirstSuccess ==
  \A c \in Calls : \A k \in DOMAIN calls[c].results :
    calls[c].results[k].success
      => /\ k = Len(calls[c].results)
         /\ k <= calls[c].maxRetries + 1
         /\ \A i \in 1..(k - 1) : ~calls[c].results[i].success
         /\ calls[c].executed = k
         /\ Len(calls[c].delays) = k - 1
         /\ calls[c].pc \in {"returning", "done"}
         /\ calls[c].pc = "done" => (calls[c].outcome = "returned" /\ calls[c].returned = calls[c].results[k])

C5_Witness ==
  \E c \in Calls : /\ Returned(c)
                   /\ calls[c].returned.success
                   /\ calls[c].executed = 3
                   /\ calls[c].maxRetries > 2

\* C6: the wait after failed attempt i is 1s, 2s, 4s for i = 1, 2, 3 and 4s
\* for every i > 3; a wait follows a failed attempt exactly when it is not
\* the final one, and never a successful attempt.
ScheduledDelay(i) == IF i = 1 THEN 1000 ELSE IF i = 2 THEN 2000 ELSE 4000

C6_BackoffSchedule ==
  \A c \in Calls :
    /\ \A i \in DOMAIN calls[c].delays : calls[c].delays[i] = ScheduledDelay(i)
    /\ Len(calls[c].delays) =
         Cardinality({i \in DOMAIN calls[c].results :
                        ~calls[c].results[i].success /\ i <= calls[c].maxRetries})
    /\ calls[c].pc = "backoff" => ~calls[c].lastResult.success

C6_Witness ==
  \E c \in Calls : /\ Returned(c)
                   /\ Len(calls[c].delays) >= 4
                   /\ calls[c].delays[4] = 4000

\* C7: after a sequence of sync calls on a key (nothing else since its
\* setConnection), getFailureCount is the number of failed sync calls since
\* the last successful one: a failed call adds exactly 1 however many
\* attempts it made, a successful call sets 0.
C7_FailureCountIsFailRun ==
  \A k \in Keys : onlySyncs[k] => getFailureCount(k) = failRun[k]

C7_Witness ==
  \E k \in Keys : \E c \in Calls :
    /\ onlySyncs[k]
    /\ failRun[k] = 2
    /\ getFailureCount(k) = 2
    /\ Returned(c)
    /\ calls[c].workspaceFolder = k
    /\ ~calls[c].returned.success
    /\ calls[c].executed >= 2

NonNegativeFailureCount == \A k \in DOMAIN connections : connections[k].failureCount >= 0

\* a step that leaves the key's state in place with a lower failureCount
Lowered(k) ==
  /\ k \in DOMAIN connections
  /\ k \in DOMAIN connections'
  /\ connections'[k].failureCount < connections[k].failureCount

C9_LastSyncTimeOnlyBySuccess ==
  [][\A k \in Keys :
       /\ \A c \in Calls :
            Completes(c, k) =>
              IF calls[c].lastResult.success
                THEN getLastSyncTime(k)' # NoTime
                ELSE getLastSyncTime(k)' = getLastSyncTime(k)
       /\ (getLastSyncTime(k) = NoTime /\ getLastSyncTime(k)' # NoTime)
            => \E c \in Calls : Completes(c, k) /\ calls[c].lastResult.success]_vars

\* C10: sync on a key without connection state, or whose stored config is
\* disabled, throws NO_CONNECTION, invokes no executor and leaves the
\* connections map and the active set unchanged.
C10_NoConnectionFailsFast ==
  [][\A c \in Calls, k \in Keys :
       (Invoked(c, k) /\ (k \notin DOMAIN connections \/ ~connections[k].config.enabled))
         => /\ calls'[c].pc = "done"
            /\ calls'[c].outcome = NO_CONNECTION
            /\ calls'[c].executed = 0
            /\ connections' = connections
            /\ activeOperations' = activeOperations]_vars

\* a disabled key refused a sync while another call held the active marker
C10_Witness ==
  \E k \in Keys : \E c, d \in Calls :
    /\ calls[c].pc = "done"
    /\ calls[c].outcome = NO_CONNECTION
    /\ calls[c].workspaceFolder = k
    /\ k \in DOMAIN connections
    /\ ~connections[k].config.enabled
    /\ d < c
    /\ InFlight(d)
    /\ calls[d].workspaceFolder = k
    /\ isActive(k)

\* the step in which call c is invoked and thrown out at once
Refused(c) == calls[c].pc = "idle" /\ calls'[c].pc = "done"

\* C11: a sync call whose attempts all returned failed results returns the
\* last of them and does not throw; sync throws only for a missing or
\* disabled connection or an active key, at invocation, without any
\* executor attempt or backoff wait.
C11_FailuresAreReturned ==
  /\ [](\A c \in Calls :
          calls[c].pc = "done" =>
            /\ calls[c].outcome \in {"returned", NO_CONNECTION, SYNC_IN_PROGRESS}
            /\ calls[c].outcome # "returned" =>
                 (calls[c].executed = 0 /\ calls[c].results = <<>> /\ calls[c].delays = <<>>)
            /\ (calls[c].executed > 0 /\ \A i \in DOMAIN calls[c].results : ~calls[c].results[i].success)
                 => /\ calls[c].outcome = "returned"
                    /\ calls[c].returned = calls[c].results[Len(calls[c].results)]
                    /\ ~calls[c].returned.success)
  /\ [][\A c \in Calls, k \in Keys :
          (Invoked(c, k) /\ Refused(c))
            => \/ (calls'[c].outcome = NO_CONNECTION
                    /\ (k \notin DOMAIN connections \/ ~connections[k].config.enabled))
               \/ (calls'[c].outcome = SYNC_IN_PROGRESS /\ k \in activeOperations)]_vars

C11_Witness ==
  \E c, d \in Calls :
    /\ Returned(c)
    /\ calls[c].executed = MaxSyncRetry + 1
    /\ ~calls[c].returned.success
    /\ calls[d].pc = "done"
    /\ calls[d].outcome = SYNC_IN_PROGRESS

\* C12: a sync call that marked its key active reaches its end, on return
\* and on an executor exception alike, and the step that ends it leaves the
\* key unmarked; whenever no call for a key is in flight the key is not active.
C12_MarkerCleared ==
  /\ \A c \in Calls : InFlight(c) ~> (calls[c].pc = "done")
  /\ [][\A c \in Calls, k \in Keys : Completes(c, k) => k \notin activeOperations']_vars
  /\ [](\A k \in Keys : InFlightOn(k) = {} => ~isActive(k))

C12_Witness ==
  \E c \in Calls :
    /\ calls[c].pc = "done"
    /\ calls[c].outcome = "EXECUTOR_ERROR"
    /\ calls[c].executed = 2
    /\ ~isActive(calls[c].workspaceFolder)
    /\ hasConnection(calls[c].workspaceFolder)

\* a step that is a setConnection on key k (directly or by a configuration change)
SetsConnection(k) ==
  /\ calls' = calls
  /\ k \in DOMAIN connections'
  /\ connections'[k] = NewState(connections'[k].config)

\* C13: once removeConnection has deleted the state of a key, getConnection
\* stays undefined and getFailureCount stays 0 until the next setConnection,
\* also when a sync call in flight at the removal finishes afterwards.
C13_RemovedStaysRemoved ==
  [][\A k \in Keys :
       (k \notin DOMAIN connections /\ ~SetsConnection(k))
         => (k \notin DOMAIN connections' /\ getFailureCount(k)' = 0)]_vars

\* C14: the config stored for a key is the one of the most recent
\* setConnection: no other step, the completion of an older sync call
\* included, stores a different config.
C14_ConfigOnlyBySetConnection ==
  [][\A k \in Keys :
       (k \in DOMAIN connections /\ k \in DOMAIN connections'
          /\ connections'[k].config # connections[k].config)
         => SetsConnection(k)]_vars

\* ---------------------------------------------------------------------
\* FileSyncManager properties
\* ---------------------------------------------------------------------
\* callbacks invoked so far plus those the live timers stand for
Produced == fired + Cardinality(DOMAIN timers)

\* the workspace has had its callback whenever a timer ran, and was never torn down
Undisturbed == epoch = 0 /\ silent = 0

Ran == DOMAIN timers \ DOMAIN timers'

\* C17: once dispose() or unregisterWorkspace(key) has run, no callback is
\* invoked for a save handled before it (also not for a handleSave that was
\* awaiting the ignore-file reload at that moment), and no callback
\* registered before it is invoked again: every invoked callback belongs to
\* a save handled, and a registration made, since the last teardown.
C17_TeardownSilences ==
  [][fired' # fired =>
       \A id \in Ran : /\ timers[id].epoch = epoch
                       /\ syncCallbacks[timers[id].key] = epoch]_vars

\* some exclude glob matches the path
Excluded(relativePath, triggerConfig) ==
  \E i \in DOMAIN triggerConfig.excludePatterns :
    minimatch(relativePath, triggerConfig.excludePatterns[i])

\* patterns holds the universal wildcard or a glob that matches the path
Included(relativePath, triggerConfig) ==
  \/ "*" \in Range(triggerConfig.patterns)
  \/ \E i \in DOMAIN triggerConfig.patterns : minimatch(relativePath, triggerConfig.patterns[i])

\* C18: whatever the path and the TriggerConfig, a save whose relative path
\* matches an exclude glob schedules no sync, also when the path matches an
\* include pattern or patterns holds the universal wildcard `*`.
C18_ExcludeWins ==
  (lastGate.evaluated /\ Excluded(lastGate.relativePath, lastGate.triggerConfig))
    => ~lastGate.scheduled

C18_Witness ==
  /\ lastGate.evaluated
  /\ "*" \in Range(lastGate.triggerConfig.patterns)
  /\ Excluded(lastGate.relativePath, lastGate.triggerConfig)
  /\ ~lastGate.ignored
  /\ ~lastGate.scheduled
  /\ saves = 0

\* C19: a save of a path that is neither ignored by the ignore rules nor
\* matched by an exclude glob schedules a sync if and only if patterns holds
\* `*` or some patterns glob matches the path; a save of an ignored or
\* excluded path schedules nothing.
C19_IncludeDecides ==
  lastGate.evaluated
    => IF lastGate.ignored \/ Excluded(lastGate.relativePath, lastGate.triggerConfig)
         THEN ~lastGate.scheduled
         ELSE lastGate.scheduled <=> Included(lastGate.relativePath, lastGate.triggerConfig)

C19_Witness ==
  /\ lastGate.evaluated
  /\ lastGate.scheduled
  /\ lastGate.relativePath = "src/main.py"
  /\ "*" \in Range(lastGate.triggerConfig.patterns)
  /\ ~minimatch(lastGate.relativePath, "*")
  /\ saves = 1

\* the rules of an ignore file as sets: its lines without blanks and
\* comments, whatever their order
RuleLines(content) ==
  {l \in {trim(raw) : raw \in Range(split(content, "\n"))} : l # "" /\ ~startsWith(l, "#")}
NegatedRules(content) == {slice(l, 1) : l \in {r \in RuleLines(content) : startsWith(r, "!")}}
PositiveRules(content) == {l \in RuleLines(content) : ~startsWith(l, "!")}

\* C20: isIgnored(p) is false whenever a negated pattern of the ignore file
\* matches p, whatever positive patterns match as well and whatever the
\* order of the file's lines; otherwise it is true exactly when some
\* positive pattern matches p.
C20_NegationWins ==
  \A k \in DOMAIN gitignoreParsers :
    LET parser == gitignoreParsers[k]
    IN  ~parser.isNull =>
          \A p \in RelativePaths :
            isIgnored(parser, p) =
              IF \E n \in NegatedRules(parser.content) : matchesPattern(p, n)
                THEN FALSE
                ELSE \E q \in PositiveRules(parser.content) : matchesPattern(p, q)

C20_Witness ==
  \E k \in DOMAIN gitignoreParsers :
    LET parser == gitignoreParsers[k]
    IN  /\ ~parser.isNull
        /\ startsWith(parser.content, "!important.log")
        /\ matchesPattern("important.log", "*.log")
        /\ ~isIgnored(parser, "important.log")
        /\ isIgnored(parser, "debug.log")

\* the ignore file has a positive pattern that matches the path and no
\* negated pattern that does
FileIgnores(file, relativePath) ==
  /\ file.readable
  /\ \E q \in PositiveRules(file.content) : matchesPattern(relativePath, q)
  /\ ~\E n \in NegatedRules(file.content) : matchesPattern(relativePath, n)

\* C21: once registerWorkspace has been called for a workspace, a save of a
\* path that the workspace's ignore file ignores (a positive pattern matches
\* it, no negated one does) never schedules a sync, also when the save is
\* handled before the asynchronous load of the ignore file has finished.
C21_IgnoredNeverSchedules ==
  [][(saves' # saves /\ \A k \in Keys : k \in DOMAIN syncCallbacks)
       => ~FileIgnores(disk, lastGate'.relativePath)]_vars

\* C22: once every reload has finished, the installed rule set is the one
\* parsed from the content saved last: a reload that started earlier and
\* finished later does not replace a newer rule set.
C22_NewestRulesInstalled ==
  \A k \in DOMAIN gitignoreParsers : loads = {} => gitignoreParsers[k] = Loaded[disk]

\* ---------------------------------------------------------------------
\* RsyncExecutor
\* ---------------------------------------------------------------------
\* the SyncResult that the first event of the process stands for; no data
\* arrives after close, so the buffers of a closed process are those the
\* close handler read
FirstEventResult ==
  IF emitted[1].event = "close"
    THEN CloseResult(emitted[1].code, rsync.stdout, rsync.stderr)
    ELSE ErrorResult(emitted[1].error)

\* C23: execute always resolves to exactly one SyncResult and never rejects:
\* the promise is pending until the process emits close or error, it is then
\* fulfilled with the result of that first event, a later event changes
\* nothing, and a pending promise is eventually fulfilled.
C23_OneResultFirstEventWins ==
  /\ [](promise.state \in {"none", "pending", "fulfilled"})
  /\ [](emitted = <<>> => promise.state # "fulfilled")
  /\ [](emitted # <<>> => promise = [state |-> "fulfilled", value |-> FirstEventResult])
  /\ [][promise.state = "fulfilled" => promise' = promise]_vars
  /\ (promise.state = "pending" ~> promise.state = "fulfilled")

C23_Witness ==
  /\ Len(emitted) = 2
  /\ emitted[1].event = "error"
  /\ emitted[2].event = "close"
  /\ emitted[2].code = 0
  /\ promise.state = "fulfilled"
  /\ ~promise.value.success

Contains(s, sub) == \E i \in 1..(Len(s) + 1) : HasAt(s, i, sub)

ZeroCounts(result) == result.filesTransferred = 0 /\ result.bytesTransferred = 0

\* C24: the outcome of one attempt is determined by how the process ends:
\* exit code 0 gives success; any other exit code gives a failure with zero
\* counts and an error whose message contains the code and the captured
\* standard error; an error event gives a failure with zero counts and that
\* same error.
C24_OutcomeByProcessEnd ==
  promise.state = "fulfilled" =>
    LET e == emitted[1]
        result == promise.value
    IN  /\ (e.event = "close" /\ e.code = 0) => (result.success /\ ~result.error.present)
        /\ (e.event = "close" /\ e.code # 0) =>
             /\ ~result.success
             /\ ZeroCounts(result)
             /\ result.error.present
             /\ Contains(result.error.message, CodeText(e.code))
             /\ Contains(result.error.message, rsync.stderr)
        /\ e.event = "error" =>
             /\ ~result.success
             /\ ZeroCounts(result)
             /\ result.error = e.error

C24_Witness ==
  /\ promise.state = "fulfilled"
  /\ emitted[1].event = "close"
  /\ emitted[1].code = 23
  /\ rsync.stderr # ""
  /\ Len(emitted) = 2

Optional(condition, argument) == IF condition THEN <<argument>> ELSE <<>>

WithSlash(directory) == IF endsWith(directory, "/") THEN directory ELSE directory \o "/"

\* the argument list the execution is expected to use
ExpectedArguments(localPath, syncConfig, dryRun, exists) ==
  <<"-avz", "--stats">>
    \o Optional(dryRun, "--dry-run")
    \o Optional(syncConfig.deleteExtraneous, "--delete")
    \o <<"--exclude=.git">>
    \o Optional(syncConfig.useGitignore /\ exists,
                "--exclude-from=" \o WithSlash(localPath) \o ".gitignore")
    \o [i \in 1..Len(syncConfig.additionalExcludes) |->
          "--exclude=" \o syncConfig.additionalExcludes[i]]
    \o <<WithSlash(localPath), "test-server:/remote/path">>

\* C25: the argument list of one execution is, in order, the base flags,
\* --dry-run iff dryRun, --delete iff deleteExtraneous, the exclusion of
\* .git, the ignore-file reference iff useGitignore and the file exists, one
\* exclude per additionalExcludes entry in configured order, the source
\* path ending in a slash and host:remotePath; it is a function of the inputs.
C25_ArgumentList ==
  [][\A exists \in BOOLEAN :
       Spawn(exists) =>
         rsync'.args = ExpectedArguments(rsync.localPath, rsync.syncConfig, rsync.dryRun, exists)]_vars

C25_Witness ==
  /\ rsync.pc = "running"
  /\ rsync.localPath = "/local/path"
  /\ Len(rsync.args) = 10
  /\ rsync.args[7] = "--exclude=__pycache__"

\* the number that follows a label in the output, its thousands separators
\* removed; 0 when the label is absent
LabelledNumber(output, label) ==
  LET m == MatchFrom(output, 1, label, DigitChars \cup {","}, "")
  IN  IF m.matched THEN parseInt(removeCommas(m.group)) ELSE 0

\* C26: on exit code 0 the result is a success whose filesTransferred and
\* bytesTransferred are the numbers after the two labels of standard output,
\* thousands separators removed in both, and 0 for an absent label.
C26_StatisticsParsed ==
  (promise.state = "fulfilled" /\ emitted[1].event = "close" /\ emitted[1].code = 0) =>
    /\ promise.value.success
    /\ promise.value.filesTransferred =
         LabelledNumber(rsync.stdout, "Number of files transferred:")
    /\ promise.value.bytesTransferred =
         LabelledNumber(rsync.stdout, "Total transferred file size:")

\* ---------------------------------------------------------------------
\* performSync
\* ---------------------------------------------------------------------
\* C27: when a failed sync is handled while the failure count of its
\* workspace is at or above the threshold, the connection-lost notice is
\* produced and no retry/reconfigure/disable prompt, whichever performSync
\* made the call (save, manual, initial, dry run).
C27_ThresholdEscalates ==
  [][\A c \in Calls :
       (Reports(c) /\ Failed(c)
          /\ getFailureCount(calls[c].workspaceFolder) >= MAX_FAILURE_COUNT)
         => ui'[c].notice = "connectionLost"]_vars

\* ---------------------------------------------------------------------
\* two workspaces
\* ---------------------------------------------------------------------
\* a step of setConnection, removeConnection or sync on key a
OperationOn(a) ==
  \/ \E config \in ConnectionConfig : SetConnection(a, config)
  \/ RemoveConnection(a)
  \/ \E c \in Calls : SyncCall(c, a, 0)
  \/ \E c \in Calls : /\ calls[c].workspaceFolder = a
                      /\ \/ \E ok \in BOOLEAN : ExecuteResolves(c, ok)
                         \/ SyncReturns(c)

\* connection state and active marker of key b are the same before and after
SameFor(b) ==
  /\ (b \in DOMAIN connections') = (b \in DOMAIN connections)
  /\ b \in DOMAIN connections => connections'[b] = connections[b]
  /\ (b \in activeOperations') = (b \in activeOperations)

\* C28: setConnection, removeConnection and sync on a key leave the
\* connection state and the active marker of every other key unchanged, and
\* a sync on a key with an enabled connection and no sync of its own in
\* flight is accepted while a sync on another key is in flight.
C28_KeysIndependent ==
  [][\A a \in BothKeys : \A b \in BothKeys \ {a} :
       /\ OperationOn(a) => SameFor(b)
       /\ \A c \in Calls :
            (SyncCall(c, b, 0) /\ ~NoEnabledConnection(b)
               /\ InFlightOn(b) = {} /\ InFlightOn(a) # {})
              => calls'[c].pc = "executing" /\ b \in activeOperations']_vars

C28_Witness ==
  /\ \A k \in BothKeys : InFlightOn(k) # {} /\ k \in activeOperations
  /\ \E c \in Calls : calls[c].pc = "returning" /\ calls[c].workspaceFolder = OtherKey

\* ---------------------------------------------------------------------
\* glob semantics of the trigger patterns
\* ---------------------------------------------------------------------
\* the part of a relative path after its last separator
RECURSIVE basename(_)
basename(relativePath) ==
  IF includes(relativePath, "/")
    THEN basename(slice(relativePath, 1))
    ELSE relativePath

\* a glob without a separator is matched against the basename as well
MatchesAnywhere(relativePath, glob) ==
  \/ minimatch(relativePath, glob)
  \/ ~includes(glob, "/") /\ minimatch(basename(relativePath), glob)

\* C29: a TriggerConfig glob without a path separator matches a saved file
\* whenever it matches the file's basename, at any depth: such an exclude
\* glob keeps the save from scheduling a sync, and such an include glob
\* schedules one for a path that is neither ignored nor excluded.
C29_BasenameGlobs ==
  lastGate.evaluated =>
    LET path == lastGate.relativePath
        excluded == \E g \in Range(lastGate.triggerConfig.excludePatterns) : MatchesAnywhere(path, g)
        included == \E g \in Range(lastGate.triggerConfig.patterns) : MatchesAnywhere(path, g)
    IN  /\ excluded => ~lastGate.scheduled
        /\ (~lastGate.ignored /\ ~excluded /\ included) => lastGate.scheduled

\* ---------------------------------------------------------------------
\* persistWorkspaceSettings
\* ---------------------------------------------------------------------
\* C30: a write of persistWorkspaceSettings keeps every key that the
\* settings file held just before it and that is not among the updated
\* connection keys, with the same value, whatever the file held and also
\* when two updates overlap.
C30_NonDestructiveMerge ==
  [][\A u \in Updates :
       WritesSettings(u) =>
         \A key \in (DOMAIN settings.entries) \ (DOMAIN updates[u].connection) :
           /\ key \in DOMAIN settings'.entries
           /\ settings'.entries[key] = settings.entries[key]]_vars

\* ---------------------------------------------------------------------
\* SshConfigParser
\* ---------------------------------------------------------------------
GitHostingSuffixes == {"github.com", "gitlab.com", "bitbucket.org", "heroku.com"}
GitHosting(s) == \E suffix \in GitHostingSuffixes : endsWith(s, suffix)

ResolvedHostname(name) ==
  LET configured == compute(sshConfig, 1, name, "HostName")
  IN  IF configured = "" THEN name ELSE configured

\* C31: a host entry is in the discovery result iff its name has no
\* wildcard character, neither its name nor its resolved hostname ends in a
\* git-hosting suffix, and its resolved user is not git; an included host
\* carries the configured HostName, or its own name when there is none.
C31_DiscoveryResult ==
  \A i \in DOMAIN sshConfig :
    LET name == sshConfig[i].value
        found == {j \in DOMAIN hosts : hosts[j].name = name}
    IN  /\ found # {} <=>
             /\ ~includes(name, "*") /\ ~includes(name, "?")
             /\ ~GitHosting(name)
             /\ ~GitHosting(ResolvedHostname(name))
             /\ compute(sshConfig, 1, name, "User") # "git"
        /\ \A j \in found : hosts[j].hostname = ResolvedHostname(name)

\* ---------------------------------------------------------------------
\* rejected and abandoned sync calls
\* ---------------------------------------------------------------------
\* C32: a sync call rejected because its key is already active leaves the
\* connection state (config, failureCount, lastSyncTime) and the active
\* marker of the key unchanged: the marker of the in-flight call is still
\* set afterwards, so the next call for the key is rejected as well.
C32_RejectionChangesNothing ==
  [][\A c \in Calls, k \in Keys, n \in 0..MaxSyncRetry :
       (SyncCall(c, k, n) /\ ~NoEnabledConnection(k) /\ AlreadyActive(k))
         => /\ calls'[c].outcome = SYNC_IN_PROGRESS
            /\ connections' = connections
            /\ activeOperations' = activeOperations
            /\ k \in activeOperations']_vars

C32_Witness ==
  /\ InFlight(1)
  /\ calls[2].outcome = SYNC_IN_PROGRESS
  /\ calls[3].outcome = SYNC_IN_PROGRESS
  /\ calls[1].workspaceFolder \in activeOperations

\* C33: once the connection of a key has been removed, a sync call for the
\* key that was in flight starts no further executor attempt: every retry
\* attempt starts while the connection it was called for is still there.
C33_RemovedAbandonsRetries ==
  [][\A c \in Calls : DelayElapses(c) => hasConnection(calls[c].workspaceFolder)]_vars

\* the sync calls for key k that are waiting between two attempts
BackingOff(k) == {c \in Calls : calls[c].pc = "backoff" /\ calls[c].workspaceFolder = k}

\* C35: the key of a sync call stays marked active during every backoff
\* wait of its retry loop, and a sync call for the key made during such a
\* wait is rejected and starts no executor attempt.
C35_ActiveThroughBackoff ==
  /\ [](\A k \in Keys : BackingOff(k) # {} => isActive(k))
  /\ [][\A c \in Calls, k \in Keys, n \in 0..MaxSyncRetry :
          (SyncCall(c, k, n) /\ BackingOff(k) # {})
            => (calls'[c].pc = "done" /\ calls'[c].executed = 0)]_vars

\* ---------------------------------------------------------------------
\* debounce timers
\* ---------------------------------------------------------------------
\* a step of handleSave: its call, or its resumption after the reload
SaveStep ==
  \/ handled' # handled
  \/ \E l \in loads : l.kind = "handleSave" /\ loads' = loads \ {l}

\* C36: a save that fails the trigger gate (ignored, excluded, matching no
\* pattern, or outside every workspace) leaves the pending debounce timers
\* as they are, remaining time included, so the pending callback fires at
\* its original time.
C36_FailedGateKeepsTimer ==
  [][(SaveStep /\ saves' = saves) => (timers' = timers /\ pendingSyncs' = pendingSyncs)]_vars

C36_Witness ==
  /\ saves = 1
  /\ handled = 2
  /\ loads = {}
  /\ lastGate.evaluated
  /\ ~lastGate.scheduled
  /\ \E id \in DOMAIN timers : timers[id].remaining = 0 /\ pendingSyncs[timers[id].key] = id

\* the live timers (scheduled, not yet fired or cancelled) of key k
LiveTimers(k) == {id \in DOMAIN timers : timers[id].key = k}

\* C37: there is at most one live debounce timer per workspace key, and
\* pendingSyncs holds an entry for a key exactly when such a timer exists,
\* namely that timer.
C37_OneTimerPerKey ==
  \A k \in Keys :
    /\ Cardinality(LiveTimers(k)) <= 1
    /\ k \in DOMAIN pendingSyncs <=> LiveTimers(k) # {}
    /\ k \in DOMAIN pendingSyncs => pendingSyncs[k] \in LiveTimers(k)

C37_Witness ==
  /\ saves = 3
  /\ epoch = 1
  /\ \E k \in Keys : k \in DOMAIN pendingSyncs /\ timers[pendingSyncs[k]].remaining = 1


\* C38: a sync call made with dryRun true holds the in-flight marker while it
\* runs, retries and backs off by the same loop, and on completion clears the
\* marker and updates failureCount and lastSyncTime as a real sync does: a
\* success sets failureCount to 0 and lastSyncTime to the current time, a
\* failed result raises the snapshot's failureCount by one.
DryStep(c) ==
  LET k == calls'[c].workspaceFolder
      before == calls[c]
      after == calls'[c]
  IN  /\ (before.pc = "idle" /\ after.pc = "executing") => k \in activeOperations'
      /\ (before.pc = "executing" /\ after.pc = "backoff") =>
           /\ ~after.lastResult.success
           /\ before.attempt < before.maxRetries
           /\ after.delays = Append(before.delays, ScheduledDelay(before.attempt + 1))
      /\ (before.pc = "executing" /\ after.pc = "returning") =>
           after.lastResult.success \/ before.attempt = before.maxRetries
      /\ (before.pc = "backoff" /\ after.pc = "executing") =>
           after.executed = before.executed + 1 /\ k \in activeOperations'
      /\ (before.pc = "returning" /\ after.pc = "done") =>
           /\ k \notin activeOperations'
           /\ after.outcome = "returned"
           /\ IF after.returned.success
                THEN /\ connections'[k].failureCount = 0
                     /\ connections'[k].lastSyncTime = clock
                ELSE /\ connections'[k].failureCount = before.state.failureCount + 1
                     /\ connections'[k].lastSyncTime = before.state.lastSyncTime
                     /\ after.executed = after.maxRetries + 1
C38_DryRunLikeRealSync ==
  /\ [](\A c \in Calls : (DryRun(c) /\ InFlight(c)) => isActive(calls[c].workspaceFolder))
  /\ [][\A c \in Calls : DryRun(c) => DryStep(c)]_vars
\* a dry run that failed once, backed off, succeeded and was recorded
C38_Witness ==
  \E c \in Calls :
    /\ DryRun(c)
    /\ calls[c].pc = "done" /\ calls[c].outcome = "returned" /\ calls[c].returned.success
    /\ calls[c].executed = 2 /\ calls[c].delays = <<1000>>
    /\ failRun[calls[c].workspaceFolder] = 0
    /\ getFailureCount(calls[c].workspaceFolder) = 0
    /\ getLastSyncTime(calls[c].workspaceFolder) = clock - 1
    /\ ~isActive(calls[c].workspaceFolder)


\* C39: the retry chain of a save-triggered performSync whose transfers all
\* fail and whose prompts are all answered with 'retry' comes to rest: a prompt
\* is shown only while the failure count is below the threshold, so at most
\* MAX_FAILURE_COUNT prompts are shown; when the count has reached the
\* threshold the connection-lost notice is shown instead and the chain starts
\* no further sync.
ChainAtRest ==
  /\ \A c \in Calls : ui[c].pc \in {"idle", "done"}
  /\ \A c \in Calls : calls[c].pc \in {"idle", "done"}
Prompts == {c \in Calls : ui[c].notice = "prompt"}
C39_RetryChainEnds ==
  /\ [](\A c \in Calls : ui[c].pc = "prompting" =>
          /\ getFailureCount(calls[c].workspaceFolder) < MAX_FAILURE_COUNT
          /\ \E d \in Calls : ui[d].pc = "idle")
  /\ [](Cardinality(Prompts) <= MAX_FAILURE_COUNT)
  /\ [](\A c \in Calls : ui[c].notice = "connectionLost" =>
          /\ getFailureCount(calls[c].workspaceFolder) >= MAX_FAILURE_COUNT
          /\ ui[c].pc = "done"
          /\ \A d \in Calls : d > c => ui[d].pc = "idle" /\ calls[d].pc = "idle")
  /\ (ui[1].pc = "calling") ~> ChainAtRest
  /\ (ui[1].pc = "calling" /\ ui[1].request.showNotifications)
       ~> (ChainAtRest /\ \E c \in Calls : ui[c].notice = "connectionLost")
\* three failed transfers from a clean connection: two prompts, then the notice
C39_Witness ==
  /\ ui[1].notice = "prompt" /\ ui[2].notice = "prompt"
  /\ ui[3].notice = "connectionLost" /\ ui[3].pc = "done"
  /\ \A c \in Calls : calls[c].pc = "done" /\ calls[c].outcome = "returned"
                        /\ ~calls[c].returned.success
  /\ \A k \in Keys : getFailureCount(k) = MAX_FAILURE_COUNT


\* C40: while a sync call of a workspace is in flight its status-bar state is
\* Syncing: neither a concurrent call that is rejected nor a configuration
\* change moves it to Idle, Error or Disabled before the in-flight call ends.
StatusOf(states, k) == IF k \in DOMAIN states THEN states[k] ELSE "disabled"
C40_SyncingWhileInFlight ==
  \A k \in Keys : InFlightOn(k) # {} => StatusOf(workspaceStates, k) = "syncing"


\* C34: every save that passes the gate of a workspace with an enabled
\* connection is eventually followed by an executor attempt that starts after
\* it: from any state in which the save's debounce timer is pending, the
\* number of attempts started so far is eventually exceeded.
StartedAttempts == Cardinality({c \in Calls : calls[c].executed >= 1})
C34_SaveIsTransferred ==
  \A save \in 1..MaxSaves, n \in 0..MaxCalls :
    (save \in DOMAIN timers /\ StartedAttempts = n /\ \A k \in Keys : ~NoEnabledConnection(k))
      ~> (StartedAttempts > n)

====
